---- MODULE Spec2Model ----
(***************************************************************************)
(* A model of the VBQ storage engine of vbinseq: the header codec, the     *)
(* block writer and the VBQ writer front-end, the record block buffer with *)
(* its two ingest paths, the memory-mapped sequential reader, the block    *)
(* index scan and the parallel block dispatcher.                           *)
(*                                                                         *)
(* Bytes are integers 0..255 and byte strings are sequences of them.  A    *)
(* u64 that the program only moves around (a packed nucleotide word) is    *)
(* kept as its 8 little-endian bytes; a u64/u32 the program computes with  *)
(* (flag, slen, xlen, block, size, records) is an integer that is encoded  *)
(* to and decoded from little-endian bytes.                                *)
(***************************************************************************)
EXTENDS Integers, Sequences, FiniteSets, Bags, TLC

VARIABLES
    wtr,      \* the VBinseqWriter: inner (sink bytes), header, headless, cblock
    pc,       \* lifecycle position of the driver: writing / finished / reading / ...
    ncalls,   \* number of writer operations called so far
    lastop,   \* name of the last operation called
    lastin,   \* the input record the last write operation looked at (none when
              \* it failed the validation of the header flags before that)
    res,      \* result of the last writer operation
    accepted, \* history: the input records for which a write returned Ok(true)
    flushed,  \* history: one entry per block emitted by BlockWriter::flush
    rdr,      \* the MmapReader: mmap, header, pos, total
    rres,     \* result of the last reader operation
    block,    \* the RecordBlock the sequential reader fills
    iter,     \* the RecordBlockIter over block: rpos, epos, live
    views,    \* history: the record views yielded by sequential iteration
    vqi,      \* the sidecar index file next to the VBQ file: exists, bytes
    par,      \* the state of one process_parallel call: workers, join, processor
    src,      \* a second writer over a memory sink, the source of ingest, with
              \* its history: w, acc (accepted records), fl (emitted blocks)
    ix,       \* the last BlockIndex operation: op, res, the index it returned
              \* (ranges), the index last built by scan, the number of calls
    steps     \* history: the number of steps the spawned workers have taken in
              \* their closures

vars == <<wtr, pc, ncalls, lastop, lastin, res, accepted, flushed,
          rdr, rres, block, iter, views, vqi, par, src, ix, steps>>

wvars == <<wtr, ncalls, lastop, lastin, res, accepted, flushed>>
rvars == <<rdr, rres, block, iter, views>>

-----------------------------------------------------------------------------
(* Bounds of the model *)

\* number of write operations called on one writer
MaxWrites == 3
\* largest value the records field of an emitted block header may carry
MaxRecordsField == 1
\* largest num_threads handed to process_parallel
MaxThreads == 3

-----------------------------------------------------------------------------
(* Program constants *)

MAGIC == 1363497814
BLOCK_MAGIC == <<66, 76, 79, 67, 75, 83, 69, 81>>
FORMAT == 1
SIZE_HEADER == 32
SIZE_BLOCK_HEADER == 32
RESERVED_BYTES == [i \in 1..16 |-> 42]
RESERVED_BYTES_BLOCK == [i \in 1..12 |-> 42]
ZSTD_MAGIC == <<40, 181, 47, 253>>
SIZE_BLOCK_RANGE == 32
INDEX_HEADER_SIZE == 32
INDEX_MAGIC == <<86, 66, 81, 73, 78, 68, 69, 88>>
INDEX_RESERVATION == [i \in 1..8 |-> 42]

-----------------------------------------------------------------------------
(* Byte helpers *)

Zeros(n) == [i \in 1..n |-> 0]

Min(a, b) == IF a < b THEN a ELSE b

DivCeil(a, b) == (a \div b) + (IF a % b = 0 THEN 0 ELSE 1)

\* bytes[from..to) with 0-based offsets, as a Rust slice
Slice(bytes, from, to) == SubSeq(bytes, from + 1, to)

\* byteorder LittleEndian::write_u32
U32LE(n) == <<n % 256, (n \div 256) % 256, (n \div 65536) % 256, (n \div 16777216) % 256>>

\* byteorder LittleEndian::write_u64 (values below 2^31)
U64LE(n) == U32LE(n) \o <<0, 0, 0, 0>>

\* a value too large for the model's integers is reported as Huge, which lies
\* beyond every offset of the model
Huge == 2^30 - 1

\* byteorder LittleEndian::read_u32
ReadU32LE(b) ==
    IF b[4] >= 128 THEN Huge
    ELSE b[1] + 256 * b[2] + 65536 * b[3] + 16777216 * b[4]

\* byteorder LittleEndian::read_u64
ReadU64LE(b) ==
    IF b[4] >= 64 \/ b[5] # 0 \/ b[6] # 0 \/ b[7] # 0 \/ b[8] # 0
    THEN Huge
    ELSE b[1] + 256 * b[2] + 65536 * b[3] + 16777216 * b[4]

RECURSIVE Flatten(_)
Flatten(ws) == IF ws = <<>> THEN <<>> ELSE Head(ws) \o Flatten(Tail(ws))

RECURSIVE SumSeq(_)
SumSeq(s) == IF s = <<>> THEN 0 ELSE Head(s) + SumSeq(Tail(s))

-----------------------------------------------------------------------------
(* 2-bit nucleotide packer (bitnuc) *)

Bases == {65, 67, 71, 84}

Code2(b) == CASE b = 65 -> 0 [] b = 67 -> 1 [] b = 71 -> 2 [] b = 84 -> 3

Base2(c) == CASE c = 0 -> 65 [] c = 1 -> 67 [] c = 2 -> 71 [] c = 3 -> 84

\* the 2-bit code of base i (1-based) of seq, 0 past its end
CodeAt(seq, i) == IF i <= Len(seq) THEN Code2(seq[i]) ELSE 0

\* byte j (0-based) of packed word k (0-based): four bases, first base lowest
PackByte(seq, k, j) ==
    LET b == 32 * k + 4 * j
    IN  CodeAt(seq, b + 1) + 4 * CodeAt(seq, b + 2)
        + 16 * CodeAt(seq, b + 3) + 64 * CodeAt(seq, b + 4)

\* bitnuc::encode: ceil(len/32) words, or an error on a base outside ACGT
EncodeOk(seq) == \A i \in 1..Len(seq) : seq[i] \in Bases

Encode(seq) ==
    [k \in 1..DivCeil(Len(seq), 32) |-> [j \in 1..8 |-> PackByte(seq, k - 1, j - 1)]]

\* bitnuc::decode: the first len bases of the packed words
Decode(words, len) ==
    [i \in 1..len |->
        LET p == (i - 1) % 32
            w == words[((i - 1) \div 32) + 1]
            byte == w[(p \div 4) + 1]
            sh == p % 4
            pw == CASE sh = 0 -> 1 [] sh = 1 -> 4 [] sh = 2 -> 16 [] sh = 3 -> 64
        IN  Base2((byte \div pw) % 4)]

-----------------------------------------------------------------------------
(* zstd frame codec: a lossless, length-changing framing of the body *)

RECURSIVE StripZeros(_)
StripZeros(b) ==
    IF b = <<>> THEN <<>>
    ELSE IF b[Len(b)] = 0 THEN StripZeros(SubSeq(b, 1, Len(b) - 1))
    ELSE b

\* ZstdEncoder::write_all + finish: magic, content size, content without its zero tail
ZstdEncode(bytes) == ZSTD_MAGIC \o U32LE(Len(bytes)) \o StripZeros(bytes)

ZstdValid(frame) ==
    /\ Len(frame) >= 8
    /\ SubSeq(frame, 1, 4) = ZSTD_MAGIC
    /\ ReadU32LE(SubSeq(frame, 5, 8)) >= Len(frame) - 8

\* the decompressed stream a zstd Decoder yields for a frame
ZstdDecode(frame) ==
    LET n == ReadU32LE(SubSeq(frame, 5, 8))
        c == SubSeq(frame, 9, Len(frame))
    IN  c \o Zeros(n - Len(c))

-----------------------------------------------------------------------------
(* Header codec (header.rs) *)

Bool01(b) == IF b THEN 1 ELSE 0

\* VBinseqHeader::with_capacity
HeaderWithCapacity(blk, qual, compressed, paired) ==
    [magic |-> MAGIC, format |-> FORMAT, block |-> blk, qual |-> qual,
     compressed |-> compressed, paired |-> paired, reserved |-> RESERVED_BYTES]

\* VBinseqHeader::write_bytes: the 32 bytes of the file header
HeaderWriteBytes(h) ==
    U32LE(h.magic) \o <<h.format>> \o U64LE(h.block)
        \o <<Bool01(h.qual), Bool01(h.compressed), Bool01(h.compressed)>>
        \o h.reserved

\* VBinseqHeader::from_bytes on a 32-byte buffer
HeaderFromBytes(buffer) ==
    LET magic == ReadU32LE(SubSeq(buffer, 1, 4))
        format == buffer[5]
    IN  IF magic # MAGIC
        THEN [ok |-> FALSE, err |-> "InvalidMagicNumber", header |-> <<>>]
        ELSE IF format # FORMAT
        THEN [ok |-> FALSE, err |-> "InvalidFormatVersion", header |-> <<>>]
        ELSE [ok |-> TRUE, err |-> "",
              header |-> [magic |-> magic, format |-> format,
                          block |-> ReadU64LE(SubSeq(buffer, 6, 13)),
                          qual |-> buffer[14] # 0,
                          compressed |-> buffer[15] # 0,
                          paired |-> buffer[16] # 0,
                          reserved |-> SubSeq(buffer, 17, 32)]]

\* BlockHeader::new
BlockHeaderNew(size, records) ==
    [magic |-> BLOCK_MAGIC, size |-> size, records |-> records,
     reserved |-> RESERVED_BYTES_BLOCK]

\* BlockHeader::write_bytes: the 32 bytes of a block header
BlockHeaderWriteBytes(bh) ==
    bh.magic \o U64LE(bh.size) \o U32LE(bh.records) \o bh.reserved

\* BlockHeader::from_bytes on a 32-byte buffer
BlockHeaderFromBytes(buffer) ==
    LET magic == SubSeq(buffer, 1, 8)
    IN  IF magic # BLOCK_MAGIC
        THEN [ok |-> FALSE, magic |-> magic, at |-> 0, header |-> <<>>]
        ELSE [ok |-> TRUE, magic |-> magic, at |-> 0,
              header |-> BlockHeaderNew(ReadU64LE(SubSeq(buffer, 9, 16)),
                                        ReadU32LE(SubSeq(buffer, 17, 20)))]

-----------------------------------------------------------------------------
(* Record sizes (writer.rs) *)

record_byte_size(schunk, xchunk) == 8 * (schunk + xchunk + 3)

record_byte_size_quality(schunk, xchunk, slen, xlen) ==
    record_byte_size(schunk, xchunk) + slen + xlen

-----------------------------------------------------------------------------
(* Encoder (writer.rs) with the invalid-nucleotide policy *)

\* Policy::handle of the default policy: the record is skipped
PolicyHandle(raw) == [usable |-> FALSE, ibuf |-> <<>>]

\* Encoder::encode_single: Some(sbuffer) or None
encode_single(primary) ==
    IF ~EncodeOk(primary)
    THEN IF PolicyHandle(primary).usable
         THEN [some |-> TRUE, sbuffer |-> Encode(PolicyHandle(primary).ibuf)]
         ELSE [some |-> FALSE, sbuffer |-> <<>>]
    ELSE [some |-> TRUE, sbuffer |-> Encode(primary)]

\* Encoder::encode_paired: Some((sbuffer, xbuffer)) or None
encode_paired(primary, extended) ==
    IF ~EncodeOk(primary) \/ ~EncodeOk(extended)
    THEN IF PolicyHandle(primary).usable /\ PolicyHandle(extended).usable
         THEN [some |-> TRUE, sbuffer |-> Encode(PolicyHandle(primary).ibuf),
               xbuffer |-> Encode(PolicyHandle(extended).ibuf)]
         ELSE [some |-> FALSE, sbuffer |-> <<>>, xbuffer |-> <<>>]
    ELSE [some |-> TRUE, sbuffer |-> Encode(primary), xbuffer |-> Encode(extended)]

-----------------------------------------------------------------------------
(* BlockWriter (writer.rs) *)

\* Option<T>: None is the empty sequence, Some(x) the one-element sequence
None == <<>>
Some(x) == <<x>>

\* BlockWriter::new
BlockWriterNew(block_size, compress) ==
    [pos |-> 0, starts |-> <<>>, block_size |-> block_size,
     ubuf |-> <<>>, zbuf |-> <<>>, compress |-> compress]

\* the precomputed padding buffer: block_size zero bytes
Padding(bw) == Zeros(bw.block_size)

\* exceeds_block_size with >= in place of >: a record of exactly block_size
\* bytes is refused
exceeds_block_size_strict(bw, record_size) ==
    IF record_size >= bw.block_size
    THEN [err |-> TRUE, val |-> FALSE]
    ELSE [err |-> FALSE, val |-> bw.pos + record_size > bw.block_size]

\* exceeds_block_size that asks for a flush when the record fills the block
\* to its last byte
exceeds_block_size_eager(bw, record_size) ==
    IF record_size > bw.block_size
    THEN [err |-> TRUE, val |-> FALSE]
    ELSE [err |-> FALSE, val |-> bw.pos + record_size >= bw.block_size]

\* BlockWriter::exceeds_block_size: Err(RecordSizeExceedsMaximumBlockSize) or Ok(bool)
exceeds_block_size(bw, record_size) ==
    IF record_size > bw.block_size
    THEN [err |-> TRUE, val |-> FALSE]
    ELSE [err |-> FALSE, val |-> bw.pos + record_size > bw.block_size]

\* BlockWriter::write_flag and write_length: one little-endian u64
write_u64(bw, v) == [bw EXCEPT !.ubuf = @ \o U64LE(v), !.pos = @ + 8]

\* BlockWriter::write_buffer: the packed words
write_buffer(bw, ebuf) ==
    [bw EXCEPT !.ubuf = @ \o Flatten(ebuf), !.pos = @ + 8 * Len(ebuf)]

\* BlockWriter::write_quality
write_quality(bw, quality) ==
    [bw EXCEPT !.ubuf = @ \o quality, !.pos = @ + Len(quality)]

\* BlockWriter::write_record
write_record(bw, flag, slen, xlen, sbuf, squal, xbuf, xqual) ==
    LET b0 == [bw EXCEPT !.starts = Append(@, bw.pos)]
        b1 == write_u64(b0, flag)
        b2 == write_u64(b1, slen)
        b3 == write_u64(b2, xlen)
        b4 == write_buffer(b3, sbuf)
        b5 == IF squal # None THEN write_quality(b4, squal[1]) ELSE b4
        b6 == IF xbuf # None THEN write_buffer(b5, xbuf[1]) ELSE b5
        b7 == IF xqual # None THEN write_quality(b6, xqual[1]) ELSE b6
    IN  b7

\* BlockWriter::clear
clear(bw) == [bw EXCEPT !.pos = 0, !.starts = <<>>, !.ubuf = <<>>, !.zbuf = <<>>]

\* BlockWriter::flush_compressed.  The call BlockHeader::new(size) supplies no
\* record count, so the value of the records field is the parameter recs.
flush_compressed(bw, inner, recs) ==
    LET zbuf == bw.zbuf \o ZstdEncode(bw.ubuf)
        header == BlockHeaderNew(Len(zbuf), recs)
    IN  [bw |-> [bw EXCEPT !.zbuf = zbuf],
         inner |-> inner \o BlockHeaderWriteBytes(header) \o zbuf]

\* flush_uncompressed with the staged length pos in the size field
flush_uncompressed_pos(bw, inner, recs) ==
    LET header == BlockHeaderNew(bw.pos, recs)
    IN  [bw |-> bw,
         inner |-> inner \o BlockHeaderWriteBytes(header) \o bw.ubuf]

\* BlockWriter::flush_uncompressed, recs as in flush_compressed
flush_uncompressed(bw, inner, recs) ==
    LET header == BlockHeaderNew(bw.block_size, recs)
    IN  [bw |-> bw,
         inner |-> inner \o BlockHeaderWriteBytes(header) \o bw.ubuf]

\* flush with the padding one byte short
flush_short(bw, inner, recs) ==
    IF bw.pos = 0
    THEN [bw |-> bw, inner |-> inner, emit |-> <<>>]
    ELSE LET bytes_to_next_start == bw.block_size - bw.pos
             padded == [bw EXCEPT !.ubuf = @ \o Slice(Padding(bw), 0, bytes_to_next_start - 1)]
             out == IF bw.compress
                    THEN flush_compressed(padded, inner, recs)
                    ELSE flush_uncompressed(padded, inner, recs)
         IN  [bw |-> clear(out.bw), inner |-> out.inner,
              emit |-> <<[off |-> Len(inner), pos |-> bw.pos,
                          nrec |-> Len(bw.starts), staged |-> bw.ubuf]>>]

\* flush without the early return on an empty staging buffer
flush_always(bw, inner, recs) ==
    LET bytes_to_next_start == bw.block_size - bw.pos
        padded == [bw EXCEPT !.ubuf = @ \o Slice(Padding(bw), 0, bytes_to_next_start)]
        out == IF bw.compress
               THEN flush_compressed(padded, inner, recs)
               ELSE flush_uncompressed(padded, inner, recs)
    IN  [bw |-> clear(out.bw), inner |-> out.inner,
         emit |-> <<[off |-> Len(inner), pos |-> bw.pos,
                     nrec |-> Len(bw.starts), staged |-> bw.ubuf]>>]

\* BlockWriter::flush.  emit is the history entry of the emitted block: the sink
\* offset of its header and the staged state it was made from.
flush(bw, inner, recs) ==
    IF bw.pos = 0
    THEN [bw |-> bw, inner |-> inner, emit |-> <<>>]
    ELSE LET bytes_to_next_start == bw.block_size - bw.pos
             padded == [bw EXCEPT !.ubuf = @ \o Slice(Padding(bw), 0, bytes_to_next_start)]
             out == IF bw.compress
                    THEN flush_compressed(padded, inner, recs)
                    ELSE flush_uncompressed(padded, inner, recs)
         IN  [bw |-> clear(out.bw), inner |-> out.inner,
              emit |-> <<[off |-> Len(inner), pos |-> bw.pos,
                          nrec |-> Len(bw.starts), staged |-> bw.ubuf]>>]

\* ingest_all without the move of the staged bytes: the starts and pos are taken,
\* the bytes are dropped
ingest_all_dropping(self, other) ==
    [self |-> [self EXCEPT !.starts = @ \o [k \in 1..Len(other.starts) |->
                                                other.starts[k] + self.pos],
                           !.pos = @ + other.pos],
     other |-> clear(other)]

\* ingest_all that leaves the position cursor of self where it was
ingest_all_unshifted(self, other) ==
    [self |-> [self EXCEPT !.ubuf = @ \o other.ubuf,
                           !.starts = @ \o [k \in 1..Len(other.starts) |->
                                                other.starts[k] + self.pos]],
     other |-> clear(other)]

\* BlockWriter::ingest_all: take all staged bytes and starts of other
ingest_all(self, other) ==
    LET n_bytes == other.pos
    IN  [self |-> [self EXCEPT !.ubuf = @ \o other.ubuf,
                               !.starts = @ \o [k \in 1..Len(other.starts) |->
                                                    other.starts[k] + self.pos],
                               !.pos = @ + n_bytes],
         other |-> clear(other)]

\* ingest_subset that fills the remaining space to the last byte
ingest_subset_splitting(self, other) ==
    LET remaining == self.block_size - self.pos
        taken == {k \in 1..Len(other.starts) : other.starts[k] <= remaining}
    IN  IF taken = {}
        THEN [ok |-> FALSE, self |-> self, other |-> other]
        ELSE
        LET start_index == Cardinality(taken)
            end_byte == remaining
        IN  [ok |-> TRUE,
             self |-> [self EXCEPT !.ubuf = @ \o Slice(other.ubuf, 0, end_byte),
                                   !.starts = @ \o [k \in 1..start_index |->
                                                        other.starts[k] + self.pos],
                                   !.pos = @ + end_byte],
             other |-> [other EXCEPT !.ubuf = Slice(@, end_byte, Len(@)),
                                     !.starts = [k \in 1..(Len(@) - start_index) |->
                                                     @[start_index + k] - end_byte],
                                     !.pos = @ - end_byte]]

\* ingest_subset that leaves the starts kept by other where they were
ingest_subset_unshifted(self, other) ==
    LET remaining == self.block_size - self.pos
        taken == {k \in 1..Len(other.starts) :
                     \A j \in 1..k : other.starts[j] <= remaining}
    IN  IF taken = {}
        THEN [ok |-> FALSE, self |-> self, other |-> other]
        ELSE
        LET last == CHOOSE k \in taken : \A j \in taken : j <= k
            start_index == last - 1
            end_byte == other.starts[last]
        IN  [ok |-> TRUE,
             self |-> [self EXCEPT !.ubuf = @ \o Slice(other.ubuf, 0, end_byte),
                                   !.starts = @ \o [k \in 1..start_index |->
                                                        other.starts[k] + self.pos],
                                   !.pos = @ + end_byte],
             other |-> [other EXCEPT !.ubuf = Slice(@, end_byte, Len(@)),
                                     !.starts = [k \in 1..(Len(@) - start_index) |->
                                                     @[start_index + k]],
                                     !.pos = @ - end_byte]]

\* BlockWriter::ingest_subset: take the records of other that start at or before
\* the remaining space, up to the start of the last of them; the unwrap panics
\* when other has no such start
ingest_subset(self, other) ==
    LET remaining == self.block_size - self.pos
        taken == {k \in 1..Len(other.starts) :
                     \A j \in 1..k : other.starts[j] <= remaining}
    IN  IF taken = {}
        THEN [ok |-> FALSE, self |-> self, other |-> other]
        ELSE
        LET last == CHOOSE k \in taken : \A j \in taken : j <= k
            start_index == last - 1
            end_byte == other.starts[last]
        IN  [ok |-> TRUE,
             self |-> [self EXCEPT !.ubuf = @ \o Slice(other.ubuf, 0, end_byte),
                                   !.starts = @ \o [k \in 1..start_index |->
                                                        other.starts[k] + self.pos],
                                   !.pos = @ + end_byte],
             other |-> [other EXCEPT !.ubuf = Slice(@, end_byte, Len(@)),
                                     !.starts = [k \in 1..(Len(@) - start_index) |->
                                                     @[start_index + k] - end_byte],
                                     !.pos = @ - end_byte]]

\* cblock_ingest without the intermediate flush: everything is taken at once
cblock_ingest_unflushed(self, other, inner, recs) ==
    LET a == ingest_all(self, other)
    IN  [ok |-> TRUE, self |-> a.self, other |-> a.other, inner |-> inner, emit |-> <<>>]

\* BlockWriter::ingest.  block_size - pos is an unsigned subtraction: with pos
\* beyond block_size it panics (or wraps, in a build without overflow checks);
\* a block writer only gets there after the ingest of a larger block.
cblock_ingest(self, other, inner, recs) ==
    IF self.pos > self.block_size
    THEN [ok |-> FALSE, self |-> self, other |-> other, inner |-> inner, emit |-> <<>>]
    ELSE
    LET remaining == self.block_size - self.pos
    IN  IF other.pos <= remaining
        THEN LET a == ingest_all(self, other)
             IN  [ok |-> TRUE, self |-> a.self, other |-> a.other,
                  inner |-> inner, emit |-> <<>>]
        ELSE LET sub == ingest_subset(self, other)
             IN  IF ~sub.ok
                 THEN [ok |-> FALSE, self |-> self, other |-> other,
                       inner |-> inner, emit |-> <<>>]
                 ELSE LET f == flush(sub.self, inner, recs)
                          a == ingest_all(f.bw, sub.other)
                      IN  [ok |-> TRUE, self |-> a.self, other |-> a.other,
                           inner |-> f.inner, emit |-> f.emit]

-----------------------------------------------------------------------------
(* VBinseqWriter (writer.rs) *)

Result(tag, a, b) == [tag |-> tag, a |-> a, b |-> b]
OkTrue == Result("OkTrue", 0, 0)
OkFalse == Result("OkFalse", 0, 0)
OkUnit == Result("Ok", 0, 0)
NoResult == Result("none", 0, 0)
Err(tag) == Result(tag, 0, 0)

\* VBinseqWriter::init: the file header goes to the sink
init(w) == [w EXCEPT !.inner = @ \o HeaderWriteBytes(w.header)]

\* VBinseqWriter::new
VBinseqWriterNew(inner, header, headless) ==
    LET w == [inner |-> inner, header |-> header, headless |-> headless,
              cblock |-> BlockWriterNew(header.block, header.compressed)]
    IN  IF ~headless THEN init(w) ELSE w

\* the common tail of the four write operations: size check, optional flush,
\* write_record
put_record(w, record_size, flag, slen, xlen, sbuf, squal, xbuf, xqual, recs) ==
    LET ex == exceeds_block_size(w.cblock, record_size)
    IN  IF ex.err
        THEN [w |-> w, emit |-> <<>>,
              res |-> Result("RecordSizeExceedsMaximumBlockSize",
                             record_size, w.cblock.block_size)]
        ELSE LET f == IF ex.val THEN flush(w.cblock, w.inner, recs)
                      ELSE [bw |-> w.cblock, inner |-> w.inner, emit |-> <<>>]
                 cb == write_record(f.bw, flag, slen, xlen, sbuf, squal, xbuf, xqual)
             IN  [w |-> [w EXCEPT !.inner = f.inner, !.cblock = cb],
                  emit |-> f.emit, res |-> OkTrue]

\* write_nucleotides without the test of the paired flag
write_nucleotides_unpaired_unchecked(w, flag, sequence, recs) ==
    IF w.header.qual THEN [w |-> w, emit |-> <<>>, res |-> Err("QualityFlagSet")]
    ELSE LET e == encode_single(sequence)
         IN  IF e.some
             THEN put_record(w, record_byte_size(Len(e.sbuffer), 0),
                             flag, Len(sequence), 0, e.sbuffer, None, None, None, recs)
             ELSE [w |-> w, emit |-> <<>>, res |-> OkFalse]

\* VBinseqWriter::write_nucleotides
write_nucleotides(w, flag, sequence, recs) ==
    IF w.header.qual THEN [w |-> w, emit |-> <<>>, res |-> Err("QualityFlagSet")]
    ELSE IF w.header.paired THEN [w |-> w, emit |-> <<>>, res |-> Err("PairedFlagSet")]
    ELSE LET e == encode_single(sequence)
         IN  IF e.some
             THEN put_record(w, record_byte_size(Len(e.sbuffer), 0),
                             flag, Len(sequence), 0, e.sbuffer, None, None, None, recs)
             ELSE [w |-> w, emit |-> <<>>, res |-> OkFalse]

\* write_nucleotides_paired that flushes the staged block before it encodes
write_nucleotides_paired_flushing(w, flag, primary, extended, recs) ==
    LET f == flush(w.cblock, w.inner, recs)
        w1 == [w EXCEPT !.inner = f.inner, !.cblock = f.bw]
        e == encode_paired(primary, extended)
    IN  IF e.some
        THEN put_record(w, record_byte_size(Len(e.sbuffer), Len(e.xbuffer)),
                        flag, Len(primary), Len(extended),
                        e.sbuffer, None, Some(e.xbuffer), None, recs)
        ELSE [w |-> w1, emit |-> f.emit, res |-> OkFalse]

\* VBinseqWriter::write_nucleotides_paired
write_nucleotides_paired(w, flag, primary, extended, recs) ==
    IF w.header.qual THEN [w |-> w, emit |-> <<>>, res |-> Err("QualityFlagSet")]
    ELSE IF ~w.header.paired THEN [w |-> w, emit |-> <<>>, res |-> Err("PairedFlagNotSet")]
    ELSE LET e == encode_paired(primary, extended)
         IN  IF e.some
             THEN put_record(w, record_byte_size(Len(e.sbuffer), Len(e.xbuffer)),
                             flag, Len(primary), Len(extended),
                             e.sbuffer, None, Some(e.xbuffer), None, recs)
             ELSE [w |-> w, emit |-> <<>>, res |-> OkFalse]

\* VBinseqWriter::write_nucleotides_quality
write_nucleotides_quality(w, flag, sequence, quality, recs) ==
    IF ~w.header.qual THEN [w |-> w, emit |-> <<>>, res |-> Err("QualityFlagNotSet")]
    ELSE IF w.header.paired THEN [w |-> w, emit |-> <<>>, res |-> Err("PairedFlagSet")]
    ELSE LET e == encode_single(sequence)
         IN  IF e.some
             THEN put_record(w, record_byte_size_quality(Len(e.sbuffer), 0, Len(quality), 0),
                             flag, Len(sequence), 0,
                             e.sbuffer, Some(quality), None, None, recs)
             ELSE [w |-> w, emit |-> <<>>, res |-> OkFalse]

\* VBinseqWriter::write_nucleotides_quality_paired
write_nucleotides_quality_paired(w, flag, s_seq, x_seq, s_qual, x_qual, recs) ==
    IF ~w.header.qual THEN [w |-> w, emit |-> <<>>, res |-> Err("QualityFlagNotSet")]
    ELSE IF ~w.header.paired THEN [w |-> w, emit |-> <<>>, res |-> Err("PairedFlagNotSet")]
    ELSE LET e == encode_paired(s_seq, x_seq)
         IN  IF e.some
             THEN put_record(w, record_byte_size_quality(Len(e.sbuffer), Len(e.xbuffer),
                                                         Len(s_qual), Len(x_qual)),
                             flag, Len(s_seq), Len(x_seq),
                             e.sbuffer, Some(s_qual), Some(e.xbuffer), Some(x_qual), recs)
             ELSE [w |-> w, emit |-> <<>>, res |-> OkFalse]

\* finish that emits a block also when nothing is staged
finish_always(w, recs) ==
    LET f == flush_always(w.cblock, w.inner, recs)
    IN  [w |-> [w EXCEPT !.inner = f.inner, !.cblock = f.bw],
         emit |-> f.emit, res |-> OkUnit]

\* VBinseqWriter::finish: flush the block writer, then the sink
finish(w, recs) ==
    LET f == flush(w.cblock, w.inner, recs)
    IN  [w |-> [w EXCEPT !.inner = f.inner, !.cblock = f.bw],
         emit |-> f.emit, res |-> OkUnit]

\* ingest that leaves the sink of other as it was
ingest_keeping(w, other, recs) ==
    LET inner1 == w.inner \o other.inner
        c == cblock_ingest(w.cblock, other.cblock, inner1, recs)
    IN  [w |-> [w EXCEPT !.inner = c.inner, !.cblock = c.self],
         other |-> [other EXCEPT !.cblock = c.other],
         emit |-> c.emit,
         res |-> IF c.ok THEN OkUnit ELSE Err("panic")]

\* VBinseqWriter::ingest: the sink bytes of other go to the sink of w and are
\* cleared there, then the block writer of w ingests the block writer of other
ingest(w, other, recs) ==
    LET inner1 == w.inner \o other.inner
        o1 == [other EXCEPT !.inner = <<>>]
        c == cblock_ingest(w.cblock, o1.cblock, inner1, recs)
    IN  [w |-> [w EXCEPT !.inner = c.inner, !.cblock = c.self],
         other |-> [o1 EXCEPT !.cblock = c.other],
         emit |-> c.emit,
         res |-> IF c.ok THEN OkUnit ELSE Err("panic")]

\* a destructor that leaves the staged records where they are
drop_forgetting(w, recs) == [w |-> w, emit |-> <<>>, res |-> OkUnit]

\* Drop for VBinseqWriter: finish, which must not fail
drop(w, recs) == finish(w, recs)

-----------------------------------------------------------------------------
(* RecordBlock and RecordBlockIter (reader.rs) *)

encoded_sequence_len(len) == DivCeil(len, 32)

\* RecordBlock::new
RecordBlockNew(block_size) ==
    [index |-> 0, flags |-> <<>>, lens |-> <<>>, sequences |-> <<>>,
     qualities |-> <<>>, block_size |-> block_size]

\* RecordBlock::clear
block_clear(blk) ==
    [blk EXCEPT !.index = 0, !.flags = <<>>, !.lens = <<>>,
                !.sequences = <<>>, !.qualities = <<>>]

\* RecordBlock::update_index
update_index(blk, index) == [blk EXCEPT !.index = index]

\* RecordBlock::n_records
n_records(blk) == Len(blk.flags)

\* the 8-byte words of bytes[pos..pos + 8 * n)
WordsAt(bytes, pos, n) == [k \in 1..n |-> Slice(bytes, pos + 8 * (k - 1), pos + 8 * k)]

\* RecordBlock::ingest_bytes from position pos on; err is "panic" when a slice
\* runs past the end of bytes
RECURSIVE ingest_bytes_from(_, _, _, _)
ingest_bytes_from(blk, bytes, has_quality, pos) ==
    IF pos + 24 > Len(bytes) THEN [blk |-> blk, err |-> ""]
    ELSE
    LET flag == ReadU64LE(Slice(bytes, pos, pos + 8))
        slen == ReadU64LE(Slice(bytes, pos + 8, pos + 16))
        xlen == ReadU64LE(Slice(bytes, pos + 16, pos + 24))
    IN  IF slen = 0 THEN [blk |-> blk, err |-> ""]
        ELSE
        LET b1 == [blk EXCEPT !.flags = Append(@, flag),
                              !.lens = @ \o <<slen, xlen>>]
            p1 == pos + 24
            sw == 8 * encoded_sequence_len(slen)
            p2 == p1 + sw
            sq == IF has_quality THEN slen ELSE 0
            p3 == p2 + sq
            xw == 8 * encoded_sequence_len(xlen)
            p4 == p3 + xw
            xq == IF has_quality THEN xlen ELSE 0
            p5 == p4 + xq
        IN  IF p2 > Len(bytes) THEN [blk |-> b1, err |-> "panic"]
            ELSE
            LET b2 == [b1 EXCEPT !.sequences = @ \o WordsAt(bytes, p1, sw \div 8)]
            IN  IF p3 > Len(bytes) THEN [blk |-> b2, err |-> "panic"]
                ELSE
                LET b3 == [b2 EXCEPT !.qualities = @ \o Slice(bytes, p2, p3)]
                IN  IF p4 > Len(bytes) THEN [blk |-> b3, err |-> "panic"]
                    ELSE
                    LET b4 == [b3 EXCEPT !.sequences = @ \o WordsAt(bytes, p3, xw \div 8)]
                    IN  IF p5 > Len(bytes) THEN [blk |-> b4, err |-> "panic"]
                        ELSE ingest_bytes_from(
                                 [b4 EXCEPT !.qualities = @ \o Slice(bytes, p4, p5)],
                                 bytes, has_quality, p5)

\* RecordBlock::ingest_bytes
ingest_bytes(blk, bytes, has_quality) == ingest_bytes_from(blk, bytes, has_quality, 0)

\* RecordBlock::ingest_compressed_bytes from position pos of the decompressed
\* stream on; read_exact fails with an I/O error when the stream is exhausted
RECURSIVE ingest_compressed_from(_, _, _, _)
ingest_compressed_from(blk, stream, has_quality, pos) ==
    IF pos + 24 > blk.block_size THEN [blk |-> blk, err |-> ""]
    ELSE IF pos + 24 > Len(stream) THEN [blk |-> blk, err |-> "IoError"]
    ELSE
    LET flag == ReadU64LE(Slice(stream, pos, pos + 8))
        slen == ReadU64LE(Slice(stream, pos + 8, pos + 16))
        xlen == ReadU64LE(Slice(stream, pos + 16, pos + 24))
    IN  IF slen = 0 THEN [blk |-> blk, err |-> ""]
        ELSE
        LET b1 == [blk EXCEPT !.flags = Append(@, flag),
                              !.lens = @ \o <<slen, xlen>>]
            p1 == pos + 24
            schunk_bytes == 8 * encoded_sequence_len(slen)
            p2 == p1 + schunk_bytes
            sq == IF has_quality THEN slen ELSE 0
            p3 == p2 + sq
            xchunk_bytes == 8 * encoded_sequence_len(xlen)
            p4 == p3 + xchunk_bytes
            xq == IF has_quality THEN xlen ELSE 0
            p5 == p4 + xq
        IN  IF p2 > Len(stream) THEN [blk |-> b1, err |-> "IoError"]
            ELSE
            LET b2 == [b1 EXCEPT !.sequences = @ \o WordsAt(stream, p1, schunk_bytes \div 8)]
            IN  IF p3 > Len(stream) THEN [blk |-> b2, err |-> "IoError"]
                ELSE
                LET b3 == [b2 EXCEPT !.qualities = @ \o Slice(stream, p2, p3)]
                IN  IF p4 > Len(stream) THEN [blk |-> b3, err |-> "IoError"]
                    ELSE
                    LET b4 == [b3 EXCEPT !.sequences = @ \o WordsAt(stream, p3, xchunk_bytes \div 8)]
                    IN  IF p5 > Len(stream) THEN [blk |-> b4, err |-> "IoError"]
                        ELSE ingest_compressed_from(
                                 [b4 EXCEPT !.qualities = @ \o Slice(stream, p4, p5)],
                                 stream, has_quality, p5)

\* ingest_compressed_bytes that runs the loop over the frame as it is, without
\* decoding it
ingest_compressed_bytes_undecoded(blk, bytes, has_quality) ==
    ingest_compressed_from(blk, bytes, has_quality, 0)

\* RecordBlock::ingest_compressed_bytes: a zstd Decoder over bytes, then the loop
ingest_compressed_bytes(blk, bytes, has_quality) ==
    IF ZstdValid(bytes)
    THEN ingest_compressed_from(blk, ZstdDecode(bytes), has_quality, 0)
    ELSE ingest_compressed_from(blk, <<>>, has_quality, 0)

\* RecordBlockIter::new
RecordBlockIterNew == [rpos |-> 0, epos |-> 0, live |-> TRUE]

\* RefRecord::new
RefRecordNew(index, flag, slen, xlen, sbuf, xbuf, squal, xqual) ==
    [index |-> index, flag |-> flag, slen |-> slen, xlen |-> xlen,
     sbuf |-> sbuf, xbuf |-> xbuf, squal |-> squal, xqual |-> xqual]

\* RecordBlockIter::next: None, Some(view), or a panic on an out-of-range slice
next(blk, it) ==
    IF it.rpos = n_records(blk)
    THEN [some |-> FALSE, panic |-> FALSE, view |-> <<>>, it |-> it]
    ELSE
    LET index == blk.index + it.rpos
        flag == blk.flags[it.rpos + 1]
        slen == blk.lens[2 * it.rpos + 1]
        xlen == blk.lens[2 * it.rpos + 2]
        schunk == encoded_sequence_len(slen)
        xchunk == encoded_sequence_len(xlen)
        e0 == it.epos
        e1 == e0 + schunk
        e2 == e1 + xchunk
        noq == blk.qualities = <<>>
        inrange == /\ e2 <= Len(blk.sequences)
                   /\ noq \/ (e0 + slen <= Len(blk.qualities)
                              /\ e1 + xlen <= Len(blk.qualities))
    IN  IF ~inrange
        THEN [some |-> FALSE, panic |-> TRUE, view |-> <<>>, it |-> it]
        ELSE [some |-> TRUE, panic |-> FALSE,
              view |-> RefRecordNew(index, flag, slen, xlen,
                          Slice(blk.sequences, e0, e1),
                          Slice(blk.sequences, e1, e2),
                          IF noq THEN <<>> ELSE Slice(blk.qualities, e0, e0 + slen),
                          IF noq THEN <<>> ELSE Slice(blk.qualities, e1, e1 + xlen)),
              it |-> [it EXCEPT !.rpos = @ + 1, !.epos = e2]]

\* RefRecord::decode_s and decode_x
decode_s(view) == Decode(view.sbuf, view.slen)
decode_x(view) == Decode(view.xbuf, view.xlen)

-----------------------------------------------------------------------------
(* MmapReader (reader.rs) *)

\* MmapReader::new over the bytes of the file
MmapReaderNew(file) ==
    IF Len(file) < SIZE_HEADER
    THEN [ok |-> FALSE, err |-> "panic", rdr |-> <<>>]
    ELSE LET h == HeaderFromBytes(Slice(file, 0, SIZE_HEADER))
         IN  IF ~h.ok THEN [ok |-> FALSE, err |-> h.err, rdr |-> <<>>]
             ELSE [ok |-> TRUE, err |-> "",
                   rdr |-> [mmap |-> file, header |-> h.header,
                            pos |-> SIZE_HEADER, total |-> 0]]

\* MmapReader::new_block
new_block(r) == RecordBlockNew(r.header.block)

\* read_block_into that adds the records field to the cumulative count before
\* it tests the length of the body
read_block_into_counting(r, blk) ==
    LET b0 == block_clear(blk)
    IN  IF r.pos + SIZE_BLOCK_HEADER > Len(r.mmap)
        THEN [rdr |-> r, blk |-> b0, res |-> OkFalse]
        ELSE
        LET bh == BlockHeaderFromBytes(Slice(r.mmap, r.pos, r.pos + SIZE_BLOCK_HEADER))
        IN  IF ~bh.ok
            THEN [rdr |-> r, blk |-> b0,
                  res |-> [tag |-> "InvalidBlockMagicNumber", a |-> bh.magic, b |-> bh.at]]
            ELSE
            LET r1 == [r EXCEPT !.pos = @ + SIZE_BLOCK_HEADER,
                                !.total = @ + bh.header.records]
                rbound == IF r.header.compressed THEN bh.header.size ELSE r.header.block
            IN  IF r1.pos + rbound > Len(r.mmap)
                THEN [rdr |-> r1, blk |-> b0,
                      res |-> Result("UnexpectedEndOfFile", r1.pos, 0)]
                ELSE
                LET block_buffer == Slice(r.mmap, r1.pos, r1.pos + rbound)
                    ing == IF r.header.compressed
                           THEN ingest_compressed_bytes(b0, block_buffer, r.header.qual)
                           ELSE ingest_bytes(b0, block_buffer, r.header.qual)
                IN  IF ing.err # ""
                    THEN [rdr |-> r1, blk |-> ing.blk, res |-> Err(ing.err)]
                    ELSE [rdr |-> [r1 EXCEPT !.pos = @ + rbound],
                          blk |-> update_index(ing.blk, r.total),
                          res |-> OkTrue]

\* MmapReader::read_block_into
read_block_into(r, blk) ==
    LET b0 == block_clear(blk)
    IN  IF r.pos + SIZE_BLOCK_HEADER > Len(r.mmap)
        THEN [rdr |-> r, blk |-> b0, res |-> OkFalse]
        ELSE
        LET bh == BlockHeaderFromBytes(Slice(r.mmap, r.pos, r.pos + SIZE_BLOCK_HEADER))
        IN  IF ~bh.ok
            THEN [rdr |-> r, blk |-> b0,
                  res |-> [tag |-> "InvalidBlockMagicNumber", a |-> bh.magic, b |-> bh.at]]
            ELSE
            LET r1 == [r EXCEPT !.pos = @ + SIZE_BLOCK_HEADER]
                rbound == IF r.header.compressed THEN bh.header.size ELSE r.header.block
            IN  IF r1.pos + rbound > Len(r.mmap)
                THEN [rdr |-> r1, blk |-> b0,
                      res |-> Result("UnexpectedEndOfFile", r1.pos, 0)]
                ELSE
                LET block_buffer == Slice(r.mmap, r1.pos, r1.pos + rbound)
                    ing == IF r.header.compressed
                           THEN ingest_compressed_bytes(b0, block_buffer, r.header.qual)
                           ELSE ingest_bytes(b0, block_buffer, r.header.qual)
                IN  IF ing.err # ""
                    THEN [rdr |-> r1, blk |-> ing.blk, res |-> Err(ing.err)]
                    ELSE [rdr |-> [r1 EXCEPT !.pos = @ + rbound,
                                             !.total = @ + bh.header.records],
                          blk |-> update_index(ing.blk, r.total),
                          res |-> OkTrue]

-----------------------------------------------------------------------------
(* BlockIndex (index.rs) *)

\* BlockRange::new
BlockRangeNew(start_offset, len, block_records, cumulative_records) ==
    [start_offset |-> start_offset, len |-> len, block_records |-> block_records,
     cumulative_records |-> cumulative_records, reservation |-> INDEX_RESERVATION]

\* BlockRange::write_bytes: the 32 bytes of an entry
BlockRangeWriteBytes(range) ==
    U64LE(range.start_offset) \o U64LE(range.len) \o U32LE(range.block_records)
        \o U32LE(range.cumulative_records) \o range.reservation

\* from_bytes that reads cumulative_records where block_records lies
BlockRangeFromBytes_misread(buffer) ==
    [start_offset |-> ReadU64LE(SubSeq(buffer, 1, 8)),
     len |-> ReadU64LE(SubSeq(buffer, 9, 16)),
     block_records |-> ReadU32LE(SubSeq(buffer, 17, 20)),
     cumulative_records |-> ReadU32LE(SubSeq(buffer, 17, 20)),
     reservation |-> INDEX_RESERVATION]

\* BlockRange::from_bytes / from_exact
BlockRangeFromBytes(buffer) ==
    [start_offset |-> ReadU64LE(SubSeq(buffer, 1, 8)),
     len |-> ReadU64LE(SubSeq(buffer, 9, 16)),
     block_records |-> ReadU32LE(SubSeq(buffer, 17, 20)),
     cumulative_records |-> ReadU32LE(SubSeq(buffer, 21, 24)),
     reservation |-> INDEX_RESERVATION]

\* IndexHeader::new
IndexHeaderNew(bytes) ==
    [magic |-> INDEX_MAGIC, bytes |-> bytes, reserved |-> [i \in 1..16 |-> 42]]

\* IndexHeader::write_bytes
IndexHeaderWriteBytes(ih) == ih.magic \o U64LE(ih.bytes) \o ih.reserved

\* BlockIndex::write_range
RECURSIVE write_range(_)
write_range(ranges) ==
    IF ranges = <<>> THEN <<>>
    ELSE BlockRangeWriteBytes(Head(ranges)) \o write_range(Tail(ranges))

\* BlockIndex::save_to_path: the bytes of the sidecar file
save_to_path(index) ==
    IndexHeaderWriteBytes(index.header) \o ZstdEncode(write_range(index.ranges))

\* the scan of from_vbq with the records of a block counted into its own
\* cumulative_records
RECURSIVE from_vbq_from_inclusive(_, _, _, _)
from_vbq_from_inclusive(mmap, pos, record_total, ranges) ==
    IF ~(pos < Len(mmap)) THEN [ok |-> TRUE, err |-> "", ranges |-> ranges]
    ELSE IF pos + SIZE_BLOCK_HEADER > Len(mmap)
    THEN [ok |-> FALSE, err |-> "panic", ranges |-> ranges]
    ELSE
    LET bh == BlockHeaderFromBytes(Slice(mmap, pos, pos + SIZE_BLOCK_HEADER))
    IN  IF ~bh.ok
        THEN [ok |-> FALSE, err |-> "InvalidBlockMagicNumber", ranges |-> ranges]
        ELSE from_vbq_from_inclusive(mmap,
                 pos + SIZE_BLOCK_HEADER + bh.header.size,
                 record_total + bh.header.records,
                 Append(ranges, BlockRangeNew(pos, bh.header.size, bh.header.records,
                                              record_total + bh.header.records)))

\* the scan loop of BlockIndex::from_vbq from position pos on
RECURSIVE from_vbq_from(_, _, _, _)
from_vbq_from(mmap, pos, record_total, ranges) ==
    IF ~(pos < Len(mmap)) THEN [ok |-> TRUE, err |-> "", ranges |-> ranges]
    ELSE IF pos + SIZE_BLOCK_HEADER > Len(mmap)
    THEN [ok |-> FALSE, err |-> "panic", ranges |-> ranges]
    ELSE
    LET bh == BlockHeaderFromBytes(Slice(mmap, pos, pos + SIZE_BLOCK_HEADER))
    IN  IF ~bh.ok
        THEN [ok |-> FALSE, err |-> "InvalidBlockMagicNumber", ranges |-> ranges]
        ELSE from_vbq_from(mmap,
                 pos + SIZE_BLOCK_HEADER + bh.header.size,
                 record_total + bh.header.records,
                 Append(ranges, BlockRangeNew(pos, bh.header.size,
                                              bh.header.records, record_total)))

\* BlockIndex::from_vbq over the bytes of the VBQ file
from_vbq(file) ==
    IF Len(file) < SIZE_HEADER
    THEN [ok |-> FALSE, err |-> "panic", index |-> <<>>]
    ELSE LET h == HeaderFromBytes(Slice(file, 0, SIZE_HEADER))
         IN  IF ~h.ok THEN [ok |-> FALSE, err |-> h.err, index |-> <<>>]
             ELSE LET sc == from_vbq_from(file, SIZE_HEADER, 0, <<>>)
                  IN  IF ~sc.ok THEN [ok |-> FALSE, err |-> sc.err, index |-> <<>>]
                      ELSE [ok |-> TRUE, err |-> "",
                            index |-> [header |-> IndexHeaderNew(Len(file)),
                                       ranges |-> sc.ranges]]

\* from_path with the arguments of ByteSizeMismatch in the other order
from_path_swapped(sidecar, file) ==
    LET file_size == Len(file)
    IN  IF Len(sidecar) < INDEX_HEADER_SIZE
        THEN [ok |-> FALSE, err |-> "IoError", a |-> 0, b |-> 0, index |-> <<>>]
        ELSE IF SubSeq(sidecar, 1, 8) # INDEX_MAGIC
        THEN [ok |-> FALSE, err |-> "IndexError::InvalidMagicNumber",
              a |-> SubSeq(sidecar, 1, 8), b |-> 0, index |-> <<>>]
        ELSE
        LET bytes == ReadU64LE(SubSeq(sidecar, 9, 16))
            rest == SubSeq(sidecar, INDEX_HEADER_SIZE + 1, Len(sidecar))
        IN  IF bytes # file_size
            THEN [ok |-> FALSE, err |-> "IndexError::ByteSizeMismatch",
                  a |-> bytes, b |-> file_size, index |-> <<>>]
            ELSE IF ~ZstdValid(rest)
            THEN [ok |-> FALSE, err |-> "IoError", a |-> 0, b |-> 0, index |-> <<>>]
            ELSE
            LET buffer == ZstdDecode(rest)
            IN  IF Len(buffer) % SIZE_BLOCK_RANGE # 0
                THEN [ok |-> FALSE, err |-> "panic", a |-> 0, b |-> 0, index |-> <<>>]
                ELSE [ok |-> TRUE, err |-> "", a |-> 0, b |-> 0,
                      index |-> [header |-> IndexHeaderNew(bytes),
                                 ranges |-> [k \in 1..(Len(buffer) \div SIZE_BLOCK_RANGE) |->
                                     BlockRangeFromBytes(Slice(buffer,
                                         SIZE_BLOCK_RANGE * (k - 1), SIZE_BLOCK_RANGE * k))]]]

\* BlockIndex::from_path: load the sidecar bytes next to the VBQ file; a and b
\* are the arguments of the error
from_path(sidecar, file) ==
    LET file_size == Len(file)
    IN  IF Len(sidecar) < INDEX_HEADER_SIZE
        THEN [ok |-> FALSE, err |-> "IoError", a |-> 0, b |-> 0, index |-> <<>>]
        ELSE IF SubSeq(sidecar, 1, 8) # INDEX_MAGIC
        THEN [ok |-> FALSE, err |-> "IndexError::InvalidMagicNumber",
              a |-> SubSeq(sidecar, 1, 8), b |-> 0, index |-> <<>>]
        ELSE
        LET bytes == ReadU64LE(SubSeq(sidecar, 9, 16))
            rest == SubSeq(sidecar, INDEX_HEADER_SIZE + 1, Len(sidecar))
        IN  IF bytes # file_size
            THEN [ok |-> FALSE, err |-> "IndexError::ByteSizeMismatch",
                  a |-> file_size, b |-> bytes, index |-> <<>>]
            ELSE IF ~ZstdValid(rest)
            THEN [ok |-> FALSE, err |-> "IoError", a |-> 0, b |-> 0, index |-> <<>>]
            ELSE
            LET buffer == ZstdDecode(rest)
            IN  IF Len(buffer) % SIZE_BLOCK_RANGE # 0
                THEN [ok |-> FALSE, err |-> "panic", a |-> 0, b |-> 0, index |-> <<>>]
                ELSE [ok |-> TRUE, err |-> "", a |-> 0, b |-> 0,
                      index |-> [header |-> IndexHeaderNew(bytes),
                                 ranges |-> [k \in 1..(Len(buffer) \div SIZE_BLOCK_RANGE) |->
                                     BlockRangeFromBytes(Slice(buffer,
                                         SIZE_BLOCK_RANGE * (k - 1), SIZE_BLOCK_RANGE * k))]]]

\* IndexError::is_mismatch by way of Error::is_index_mismatch: true of every
\* index error, false of the other errors
is_index_mismatch(err) ==
    err \in {"IndexError::ByteSizeMismatch", "IndexError::InvalidMagicNumber",
             "IndexError::MissingUpstreamFile"}

\* load_index that returns the rebuilt index without saving it
load_index_unsaved(r, sc) ==
    LET rebuild ==
            LET b == from_vbq(r.mmap)
            IN  IF b.ok
                THEN [ok |-> TRUE, err |-> "", index |-> b.index, sidecar |-> sc]
                ELSE [ok |-> FALSE, err |-> b.err, index |-> <<>>, sidecar |-> sc]
    IN  IF sc.exists
        THEN LET l == from_path(sc.bytes, r.mmap)
             IN  IF l.ok
                 THEN [ok |-> TRUE, err |-> "", index |-> l.index, sidecar |-> sc]
                 ELSE IF is_index_mismatch(l.err) THEN rebuild
                 ELSE [ok |-> FALSE, err |-> l.err, index |-> <<>>, sidecar |-> sc]
        ELSE rebuild

\* MmapReader::load_index; sc is the sidecar file (exists, bytes)
load_index(r, sc) ==
    LET rebuild ==
            LET b == from_vbq(r.mmap)
            IN  IF b.ok
                THEN [ok |-> TRUE, err |-> "", index |-> b.index,
                      sidecar |-> [exists |-> TRUE, bytes |-> save_to_path(b.index)]]
                ELSE [ok |-> FALSE, err |-> b.err, index |-> <<>>, sidecar |-> sc]
    IN  IF sc.exists
        THEN LET l == from_path(sc.bytes, r.mmap)
             IN  IF l.ok
                 THEN [ok |-> TRUE, err |-> "", index |-> l.index, sidecar |-> sc]
                 ELSE IF is_index_mismatch(l.err) THEN rebuild
                 ELSE [ok |-> FALSE, err |-> l.err, index |-> <<>>, sidecar |-> sc]
        ELSE rebuild

-----------------------------------------------------------------------------
(* Parallel dispatcher: MmapReader::process_parallel (reader.rs) *)

\* blocks_per_thread with a division that rounds down
blocks_per_thread_floor(n_blocks, num_threads) == n_blocks \div num_threads

\* blocks_per_thread
blocks_per_thread(n_blocks, num_threads) == DivCeil(n_blocks, num_threads)

\* end_block without the per-thread bound: every thread runs to the last block
end_block_unbounded(thread_id, bpt, n_blocks) == n_blocks

\* start_block and end_block of a thread id
start_block(thread_id, bpt) == thread_id * bpt
end_block(thread_id, bpt, n_blocks) == Min((thread_id + 1) * bpt, n_blocks)

\* the test that skips a thread id: if start_block > n_blocks { continue }
skipped(thread_id, bpt, n_blocks) == start_block(thread_id, bpt) > n_blocks

\* the state of a spawned worker: its block ranges, its own record block, its
\* position in the closure (fetch a block, iterate it, complete the batch)
WorkerNew(thread_id, blocks, header) ==
    [tid |-> thread_id, blocks |-> blocks, bi |-> 0,
     blk |-> RecordBlockNew(header.block), it |-> [rpos |-> 0, epos |-> 0, live |-> FALSE],
     st |-> "fetch", err |-> "", log |-> <<>>]

\* the spawn loop over thread ids from..num_threads-1: the handles, in spawn order
RECURSIVE spawn_from(_, _, _, _)
spawn_from(from, num_threads, ranges, header) ==
    IF from >= num_threads THEN <<>>
    ELSE LET bpt == blocks_per_thread(Len(ranges), num_threads)
             rest == spawn_from(from + 1, num_threads, ranges, header)
         IN  IF skipped(from, bpt, Len(ranges)) THEN rest
             ELSE <<WorkerNew(from,
                              Slice(ranges, start_block(from, bpt),
                                    end_block(from, bpt, Len(ranges))),
                              header)>> \o rest

\* a closure that returns Ok after the first of its blocks
worker_fetch_once(w, mmap, header) ==
    IF w.bi = Len(w.blocks) \/ w.bi >= 1 THEN [w EXCEPT !.st = "done"]
    ELSE
    LET block_range == w.blocks[w.bi + 1]
        b0 == block_clear(w.blk)
        block_start == block_range.start_offset + SIZE_BLOCK_HEADER
    IN  IF block_start + block_range.len > Len(mmap)
        THEN [w EXCEPT !.st = "failed", !.err = "panic", !.blk = b0]
        ELSE
        LET block_data == Slice(mmap, block_start, block_start + block_range.len)
            ing == IF header.compressed
                   THEN ingest_compressed_bytes(b0, block_data, header.qual)
                   ELSE ingest_bytes(b0, block_data, header.qual)
        IN  IF ing.err # ""
            THEN [w EXCEPT !.st = "failed", !.err = ing.err, !.blk = ing.blk]
            ELSE [w EXCEPT !.st = "iter", !.it = RecordBlockIterNew,
                           !.blk = update_index(ing.blk, block_range.cumulative_records)]

\* worker closure: clear the record block and ingest the next assigned block
worker_fetch(w, mmap, header) ==
    IF w.bi = Len(w.blocks) THEN [w EXCEPT !.st = "done"]
    ELSE
    LET block_range == w.blocks[w.bi + 1]
        b0 == block_clear(w.blk)
        block_start == block_range.start_offset + SIZE_BLOCK_HEADER
    IN  IF block_start + block_range.len > Len(mmap)
        THEN [w EXCEPT !.st = "failed", !.err = "panic", !.blk = b0]
        ELSE
        LET block_data == Slice(mmap, block_start, block_start + block_range.len)
            ing == IF header.compressed
                   THEN ingest_compressed_bytes(b0, block_data, header.qual)
                   ELSE ingest_bytes(b0, block_data, header.qual)
        IN  IF ing.err # ""
            THEN [w EXCEPT !.st = "failed", !.err = ing.err, !.blk = ing.blk]
            ELSE [w EXCEPT !.st = "iter", !.it = RecordBlockIterNew,
                           !.blk = update_index(ing.blk, block_range.cumulative_records)]

\* a callback of the processor as a worker made it: the callback, the position
\* of the block among the blocks of the worker, the view handed over
Callback(ev, bi, view) == [ev |-> ev, bi |-> bi, view |-> view]

\* a closure that moves to the next block without signalling batch completion
worker_batch_silent(w) == [w EXCEPT !.st = "fetch", !.bi = @ + 1]

\* worker closure: signal batch completion and move to the next block
worker_batch(w) ==
    [w EXCEPT !.st = "fetch", !.bi = @ + 1,
              !.log = Append(@, Callback("on_batch_complete", w.bi, <<>>))]

-----------------------------------------------------------------------------
(* Inputs of the driver *)

\* logical block sizes of the file headers
BlockSizes == {43, 87}

\* the values the records field of an emitted block header may carry
RecordsFieldValues == {0, MaxRecordsField}

\* a 33-base sequence (two packed words) and its 33 quality bytes
Long33 == [i \in 1..33 |-> IF i % 2 = 1 THEN 71 ELSE 84]
Qual33 == [i \in 1..33 |-> 47 + i]

\* the records handed to the write operations: flag, primary and extended
\* sequence, primary and extended quality
Inputs ==
    { [flag |-> 7,     s |-> <<67>>,     sq |-> <<33>>,     x |-> <<71, 84>>, xq |-> <<35, 36>>],
      [flag |-> 258,   s |-> <<71, 84>>, sq |-> <<37, 38>>, x |-> <<67, 65>>, xq |-> <<39, 40>>],
      [flag |-> 5,     s |-> <<>>,       sq |-> <<>>,       x |-> <<67>>,     xq |-> <<41>>],
      [flag |-> 9,     s |-> <<78>>,     sq |-> <<42>>,     x |-> <<65>>,     xq |-> <<43>>],
      [flag |-> 65539, s |-> Long33,     sq |-> Qual33,     x |-> <<71, 84>>, xq |-> <<44, 45>>] }

\* what a write operation is handed of an input record
AsSingle(in) == [in EXCEPT !.sq = <<>>, !.x = <<>>, !.xq = <<>>]
AsPaired(in) == [in EXCEPT !.sq = <<>>, !.xq = <<>>]
AsQuality(in) == [in EXCEPT !.x = <<>>, !.xq = <<>>]
AsQualityPaired(in) == in

NoInput == [flag |-> 0, s |-> <<>>, sq |-> <<>>, x |-> <<>>, xq |-> <<>>]

NoReader == [mmap |-> <<>>, header |-> HeaderWithCapacity(0, FALSE, FALSE, FALSE),
             pos |-> 0, total |-> 0]

NoSidecar == [exists |-> FALSE, bytes |-> <<>>]

NoIx == [op |-> "none", res |-> NoResult, index |-> <<>>, scan |-> <<>>, n |-> 0]

NoSource == [w |-> <<>>, acc |-> <<>>, fl |-> <<>>, mixed |-> FALSE, moved |-> 0, n |-> 0]

NoPar == [st |-> "idle", res |-> NoResult, num_threads |-> 0, workers |-> <<>>,
          joined |-> 0, tids |-> <<>>, seen |-> EmptyBag, index |-> <<>>,
          thread_id |-> 0]

-----------------------------------------------------------------------------
(* The driver: write, finish, open, read sequentially *)

Init ==
    /\ \E bs \in BlockSizes, q \in BOOLEAN, c \in BOOLEAN, p \in BOOLEAN, hl \in BOOLEAN :
          wtr = VBinseqWriterNew(<<>>, HeaderWithCapacity(bs, q, c, p), hl)
    /\ pc = "writing"
    /\ ncalls = 0
    /\ lastop = "new"
    /\ lastin = NoInput
    /\ res = NoResult
    /\ accepted = <<>>
    /\ flushed = <<>>
    /\ rdr = NoReader
    /\ rres = NoResult
    /\ block = RecordBlockNew(0)
    /\ iter = [rpos |-> 0, epos |-> 0, live |-> FALSE]
    /\ views = <<>>
    /\ vqi = NoSidecar
    /\ par = NoPar
    /\ src = NoSource
    /\ ix = NoIx
    /\ steps = 0

FlagErrors == {"QualityFlagSet", "QualityFlagNotSet", "PairedFlagSet", "PairedFlagNotSet"}

\* the bookkeeping shared by the writer actions: r is the outcome of the
\* operation op called with the input in
Called(op, in, r) ==
    /\ wtr' = r.w
    /\ res' = r.res
    /\ ncalls' = ncalls + 1
    /\ lastop' = op
    /\ lastin' = IF r.res.tag \in FlagErrors THEN NoInput ELSE in
    /\ accepted' = IF r.res = OkTrue THEN Append(accepted, in) ELSE accepted
    /\ flushed' = flushed \o r.emit
    /\ UNCHANGED <<pc, rdr, rres, block, iter, views, vqi, par, src, ix, steps>>

WriteNucleotides ==
    /\ pc = "writing" /\ ncalls < MaxWrites
    /\ \E in \in Inputs, recs \in RecordsFieldValues :
          Called("write_nucleotides", AsSingle(in),
                 write_nucleotides(wtr, in.flag, in.s, recs))

WriteNucleotidesPaired ==
    /\ pc = "writing" /\ ncalls < MaxWrites
    /\ \E in \in Inputs, recs \in RecordsFieldValues :
          Called("write_nucleotides_paired", AsPaired(in),
                 write_nucleotides_paired(wtr, in.flag, in.s, in.x, recs))

WriteNucleotidesQuality ==
    /\ pc = "writing" /\ ncalls < MaxWrites
    /\ \E in \in Inputs, recs \in RecordsFieldValues :
          Called("write_nucleotides_quality", AsQuality(in),
                 write_nucleotides_quality(wtr, in.flag, in.s, in.sq, recs))

WriteNucleotidesQualityPaired ==
    /\ pc = "writing" /\ ncalls < MaxWrites
    /\ \E in \in Inputs, recs \in RecordsFieldValues :
          Called("write_nucleotides_quality_paired", AsQualityPaired(in),
                 write_nucleotides_quality_paired(wtr, in.flag, in.s, in.x, in.sq, in.xq, recs))

Finish ==
    /\ pc = "writing"
    /\ \E recs \in RecordsFieldValues :
          LET r == finish(wtr, recs)
          IN  /\ wtr' = r.w
              /\ res' = r.res
              /\ flushed' = flushed \o r.emit
    /\ lastop' = "finish"
    /\ lastin' = NoInput
    /\ pc' = "finished"
    /\ UNCHANGED <<ncalls, accepted, rdr, rres, block, iter, views, vqi, par, src, ix, steps>>

\* MmapReader::new on the finished file, then new_block
Open ==
    /\ pc = "finished"
    /\ LET o == MmapReaderNew(wtr.inner)
       IN  IF o.ok
           THEN /\ rdr' = o.rdr
                /\ block' = new_block(o.rdr)
                /\ rres' = OkUnit
                /\ pc' = "reading"
           ELSE /\ rres' = Err(o.err)
                /\ pc' = "failed"
                /\ UNCHANGED <<rdr, block>>
    /\ UNCHANGED <<wvars, iter, views, vqi, par, src, ix, steps>>

\* one call of read_block_into by the sequential loop
ReadBlockInto ==
    /\ pc = "reading" /\ ~iter.live
    /\ LET r == read_block_into(rdr, block)
       IN  /\ rdr' = r.rdr
           /\ block' = r.blk
           /\ rres' = r.res
           /\ iter' = IF r.res.tag = "OkTrue" THEN RecordBlockIterNew ELSE iter
           /\ pc' = CASE r.res.tag = "OkTrue" -> "reading"
                      [] r.res.tag = "OkFalse" -> "done"
                      [] OTHER -> "failed"
    /\ UNCHANGED <<wvars, views, vqi, par, src, ix, steps>>

\* one call of RecordBlockIter::next by the loop over block.iter()
IterNext ==
    /\ pc = "reading" /\ iter.live
    /\ LET n == next(block, iter)
       IN  IF n.panic
           THEN /\ pc' = "failed"
                /\ rres' = Err("panic")
                /\ UNCHANGED <<iter, views>>
           ELSE IF n.some
           THEN /\ iter' = n.it
                /\ views' = Append(views, n.view)
                /\ UNCHANGED <<pc, rres>>
           ELSE /\ iter' = [iter EXCEPT !.live = FALSE]
                /\ UNCHANGED <<pc, rres, views>>
    /\ UNCHANGED <<wvars, rdr, block, vqi, par, src, ix, steps>>

Next ==
    \/ WriteNucleotides
    \/ WriteNucleotidesPaired
    \/ WriteNucleotidesQuality
    \/ WriteNucleotidesQualityPaired
    \/ Finish
    \/ Open
    \/ ReadBlockInto
    \/ IterNext

Spec == Init /\ [][Next]_vars

TypeOK == pc \in {"writing", "finished", "dropped", "reading", "done", "failed", "indexed"}

-----------------------------------------------------------------------------
(* The parallel driver: a finished file is read sequentially, then handed to
   process_parallel with a processor that collects the views it is given *)

\* number of write operations behind a file of the parallel driver
ParWrites == 2

\* the write operation that matches the header of w
write_matching(w, in, recs) ==
    CASE ~w.header.qual /\ ~w.header.paired ->
             [in |-> AsSingle(in), r |-> write_nucleotides(w, in.flag, in.s, recs)]
      [] ~w.header.qual /\ w.header.paired ->
             [in |-> AsPaired(in), r |-> write_nucleotides_paired(w, in.flag, in.s, in.x, recs)]
      [] w.header.qual /\ ~w.header.paired ->
             [in |-> AsQuality(in), r |-> write_nucleotides_quality(w, in.flag, in.s, in.sq, recs)]
      [] w.header.qual /\ w.header.paired ->
             [in |-> AsQualityPaired(in),
              r |-> write_nucleotides_quality_paired(w, in.flag, in.s, in.x, in.sq, in.xq, recs)]

\* the writer, the accepted records and the emitted blocks after the matching
\* write operation was called on each of ins
RECURSIVE write_all(_, _, _)
write_all(st, ins, recs) ==
    IF ins = <<>> THEN st
    ELSE LET m == write_matching(st.w, Head(ins), recs)
         IN  write_all([w |-> m.r.w,
                        acc |-> IF m.r.res = OkTrue THEN Append(st.acc, m.in) ELSE st.acc,
                        fl |-> st.fl \o m.r.emit],
                       Tail(ins), recs)

InitPar ==
    /\ \E bs \in BlockSizes, q \in BOOLEAN, c \in BOOLEAN, p \in BOOLEAN,
          ins \in [1..ParWrites -> Inputs], recs \in RecordsFieldValues :
          LET w0 == VBinseqWriterNew(<<>>, HeaderWithCapacity(bs, q, c, p), FALSE)
              st == write_all([w |-> w0, acc |-> <<>>, fl |-> <<>>], ins, recs)
              f == finish(st.w, recs)
          IN  /\ wtr = f.w
              /\ accepted = st.acc
              /\ flushed = st.fl \o f.emit
    /\ pc = "finished"
    /\ ncalls = ParWrites
    /\ lastop = "finish"
    /\ lastin = NoInput
    /\ res = OkUnit
    /\ rdr = NoReader
    /\ rres = NoResult
    /\ block = RecordBlockNew(0)
    /\ iter = [rpos |-> 0, epos |-> 0, live |-> FALSE]
    /\ views = <<>>
    /\ vqi = NoSidecar
    /\ par = NoPar
    /\ src = NoSource
    /\ ix = NoIx
    /\ steps = 0

\* process_parallel up to the join loop: load the index, spawn the workers
ProcessParallel ==
    /\ pc = "done" /\ par.st = "idle"
    /\ \E num_threads \in 1..MaxThreads :
          LET li == load_index(rdr, vqi)
          IN  /\ vqi' = li.sidecar
              /\ IF ~li.ok
                 THEN par' = [par EXCEPT !.st = "returned", !.res = Err(li.err),
                                         !.num_threads = num_threads]
                 ELSE IF Len(li.index.ranges) = 0
                 THEN par' = [par EXCEPT !.st = "returned", !.res = OkUnit,
                                         !.num_threads = num_threads,
                                         !.index = li.index.ranges]
                 ELSE LET ws == spawn_from(0, num_threads, li.index.ranges, rdr.header)
                      IN  par' = [par EXCEPT !.st = "joining",
                                             !.num_threads = num_threads,
                                             !.workers = ws,
                                             !.tids = [k \in 1..Len(ws) |-> ws[k].tid],
                                             !.index = li.index.ranges]
    /\ UNCHANGED <<wvars, pc, rvars, src, ix, steps>>

\* a worker fetches and ingests its next block, or returns Ok(())
WorkerFetch ==
    \E k \in 1..Len(par.workers) :
        /\ par.workers[k].st = "fetch"
        /\ par' = [par EXCEPT !.workers[k] = worker_fetch(@, rdr.mmap, rdr.header)]
        /\ steps' = steps + 1
        /\ UNCHANGED <<wvars, pc, rvars, vqi, src, ix>>

\* a worker takes the next record of its block and calls process_record, which
\* adds the view to the collection shared by the processor clones
WorkerRecord ==
    \E k \in 1..Len(par.workers) :
        /\ par.workers[k].st = "iter"
        /\ LET w == par.workers[k]
               n == next(w.blk, w.it)
           IN  IF n.panic
               THEN par' = [par EXCEPT !.workers[k].st = "failed",
                                       !.workers[k].err = "panic"]
               ELSE IF n.some
               THEN par' = [par EXCEPT !.workers[k].it = n.it,
                                       !.workers[k].log =
                                           Append(@, Callback("process_record", w.bi, <<n.view>>)),
                                       !.seen = @ (+) SetToBag({n.view})]
               ELSE par' = [par EXCEPT !.workers[k].st = "batch"]
        /\ steps' = steps + 1
        /\ UNCHANGED <<wvars, pc, rvars, vqi, src, ix>>

\* a worker calls on_batch_complete after the records of a block
WorkerBatch ==
    \E k \in 1..Len(par.workers) :
        /\ par.workers[k].st = "batch"
        /\ par' = [par EXCEPT !.workers[k] = worker_batch(@)]
        /\ steps' = steps + 1
        /\ UNCHANGED <<wvars, pc, rvars, vqi, src, ix>>

\* the join loop: handle.join().unwrap()? on the next handle
Join ==
    /\ par.st = "joining"
    /\ IF par.joined = Len(par.workers)
       THEN par' = [par EXCEPT !.st = "returned", !.res = OkUnit]
       ELSE LET w == par.workers[par.joined + 1]
            IN  /\ w.st \in {"done", "failed"}
                /\ par' = IF w.st = "done"
                          THEN [par EXCEPT !.joined = @ + 1]
                          ELSE [par EXCEPT !.st = "returned", !.res = Err(w.err)]
    /\ UNCHANGED <<wvars, pc, rvars, vqi, src, ix, steps>>

NextPar ==
    \/ Open
    \/ ReadBlockInto
    \/ IterNext
    \/ ProcessParallel
    \/ WorkerFetch
    \/ WorkerRecord
    \/ WorkerBatch
    \/ Join

SpecPar == InitPar /\ [][NextPar]_vars

-----------------------------------------------------------------------------
(* The parallel driver with a processor that writes each batch to a shared
   writer (examples/parallel.rs): on_batch_complete fails when the write fails *)

\* on_batch_complete returns an error: the closure returns it with `?`
WorkerBatchFails ==
    \E k \in 1..Len(par.workers) :
        /\ par.workers[k].st = "batch"
        /\ par' = [par EXCEPT !.workers[k].st = "failed",
                              !.workers[k].err = "IoError"]
        /\ UNCHANGED <<wvars, pc, rvars, vqi, src, ix, steps>>

\* process_record returns an error for the next record of the block: the
\* closure returns it with `?`
WorkerRecordFails ==
    \E k \in 1..Len(par.workers) :
        /\ par.workers[k].st = "iter"
        /\ LET w == par.workers[k]
               n == next(w.blk, w.it)
           IN  /\ n.some
               /\ par' = [par EXCEPT !.workers[k].st = "failed",
                                     !.workers[k].err = "IoError"]
        /\ UNCHANGED <<wvars, pc, rvars, vqi, src, ix, steps>>

NextJoin ==
    \/ Open
    \/ ReadBlockInto
    \/ IterNext
    \/ ProcessParallel
    \/ WorkerFetch
    \/ WorkerRecord
    \/ WorkerRecordFails
    \/ WorkerBatch
    \/ WorkerBatchFails
    \/ Join

SpecJoin == InitPar /\ [][NextJoin]_vars

\* a step of the closure of some worker: WorkerFetch, WorkerRecord and
\* WorkerBatch are the actions that take it, and one of them can be taken
\* while a worker has neither returned Ok nor an error
WorkerStep ==
    /\ \E k \in 1..Len(par.workers) : par.workers[k].st \in {"fetch", "iter", "batch"}
    /\ steps' = steps + 1

\* a spawned thread is scheduled: while a worker can go on with its closure,
\* some worker does
SpecJoinFair == SpecJoin /\ WF_steps(WorkerStep)

-----------------------------------------------------------------------------
(* The spawn loop of process_parallel over an index of n_blocks blocks *)

\* largest number of blocks and of threads of the spawn loop
MaxPartBlocks == 6
MaxPartThreads == 6

\* the index of a file of n blocks of one record and 43 body bytes each
PartRanges(n) ==
    [i \in 1..n |-> [start_offset |-> SIZE_HEADER + (i - 1) * (SIZE_BLOCK_HEADER + 43),
                     len |-> 43, block_records |-> 1, cumulative_records |-> i - 1]]

InitPart ==
    /\ wtr = VBinseqWriterNew(<<>>, HeaderWithCapacity(43, FALSE, FALSE, FALSE), FALSE)
    /\ pc = "indexed"
    /\ ncalls = 0
    /\ lastop = "none"
    /\ lastin = NoInput
    /\ res = NoResult
    /\ accepted = <<>>
    /\ flushed = <<>>
    /\ rdr = [NoReader EXCEPT !.header = HeaderWithCapacity(43, FALSE, FALSE, FALSE)]
    /\ rres = NoResult
    /\ block = RecordBlockNew(0)
    /\ iter = [rpos |-> 0, epos |-> 0, live |-> FALSE]
    /\ views = <<>>
    /\ vqi = NoSidecar
    /\ \E n_blocks \in 1..MaxPartBlocks, num_threads \in 1..MaxPartThreads :
          par = [NoPar EXCEPT !.st = "spawning", !.num_threads = num_threads,
                              !.index = PartRanges(n_blocks)]
    /\ src = NoSource
    /\ ix = NoIx
    /\ steps = 0

\* one iteration of `for thread_id in 0..num_threads`, or the end of the loop
Spawn ==
    /\ pc = "indexed" /\ par.st = "spawning"
    /\ IF par.thread_id = par.num_threads
       THEN par' = [par EXCEPT !.st = "joining"]
       ELSE LET thread_id == par.thread_id
                n_blocks == Len(par.index)
                bpt == blocks_per_thread(n_blocks, par.num_threads)
            IN  IF skipped(thread_id, bpt, n_blocks)
                THEN par' = [par EXCEPT !.thread_id = @ + 1]
                ELSE par' = [par EXCEPT
                        !.thread_id = @ + 1,
                        !.workers = Append(@, WorkerNew(thread_id,
                                        Slice(par.index, start_block(thread_id, bpt),
                                              end_block(thread_id, bpt, n_blocks)),
                                        rdr.header)),
                        !.tids = Append(@, thread_id)]
    /\ UNCHANGED <<wvars, pc, rvars, vqi, src, ix, steps>>

NextPart == Spawn

SpecPart == InitPart /\ [][NextPart]_vars

-----------------------------------------------------------------------------
(* The ingest driver: a destination writer wtr and a source writer src.w over a
   memory sink are written to; the destination ingests the source, which is
   then empty and stands for the next source; the destination is finished *)

\* number of operations called on the two writers before finish
IngOps == 4

\* the block size of the destination, and a smaller one for a source that differs
IngBlock == 87
IngOtherBlock == 43

\* the records written in the ingest driver: non-empty primary sequences
IngInputs == {in \in Inputs : in.flag \in {7, 258}}

\* the sources of a destination with header h: the same header (headless or
\* not), or a header that differs from h in one field
IngSources(h) ==
    {[header |-> h, headless |-> hl] : hl \in BOOLEAN}
    \cup {[header |-> [h EXCEPT !.block = IngOtherBlock], headless |-> TRUE],
          [header |-> [h EXCEPT !.qual = ~@], headless |-> TRUE],
          [header |-> [h EXCEPT !.compressed = ~@], headless |-> TRUE],
          [header |-> [h EXCEPT !.paired = ~@], headless |-> TRUE]}

InitIng ==
    /\ \E q \in BOOLEAN, c \in BOOLEAN, p \in BOOLEAN :
          LET h == HeaderWithCapacity(IngBlock, q, c, p)
          IN  /\ wtr = VBinseqWriterNew(<<>>, h, FALSE)
              /\ \E o \in IngSources(h) :
                    src = [NoSource EXCEPT !.w = VBinseqWriterNew(<<>>, o.header, o.headless)]
    /\ pc = "writing"
    /\ ncalls = 0
    /\ lastop = "new"
    /\ lastin = NoInput
    /\ res = NoResult
    /\ accepted = <<>>
    /\ flushed = <<>>
    /\ rdr = NoReader
    /\ rres = NoResult
    /\ block = RecordBlockNew(0)
    /\ iter = [rpos |-> 0, epos |-> 0, live |-> FALSE]
    /\ views = <<>>
    /\ vqi = NoSidecar
    /\ par = NoPar
    /\ ix = NoIx
    /\ steps = 0

\* the destination is handed a record by the write operation of its header
IngDestWrite ==
    /\ pc = "writing" /\ ncalls < IngOps
    /\ \E in \in IngInputs, recs \in RecordsFieldValues :
          LET m == write_matching(wtr, in, recs)
          IN  Called("write", m.in, m.r)

\* the source is handed a record by the write operation of its header
IngSrcWrite ==
    /\ pc = "writing" /\ ncalls < IngOps
    /\ \E in \in IngInputs, recs \in RecordsFieldValues :
          LET m == write_matching(src.w, in, recs)
          IN  /\ src' = [src EXCEPT !.w = m.r.w,
                                    !.acc = IF m.r.res = OkTrue THEN Append(@, m.in) ELSE @,
                                    !.fl = @ \o m.r.emit]
              /\ res' = m.r.res
              /\ lastin' = m.in
    /\ ncalls' = ncalls + 1
    /\ lastop' = "source_write"
    /\ UNCHANGED <<wtr, pc, accepted, flushed, rvars, vqi, par, ix, steps>>

\* wtr.ingest(&mut src.w); the blocks the source had emitted are now blocks of
\* the destination, at the offsets where its sink bytes were appended
Ingest ==
    /\ pc = "writing" /\ ncalls < IngOps
    /\ \E recs \in RecordsFieldValues :
          LET r == ingest(wtr, src.w, recs)
              took == r.res = OkUnit
          IN  /\ wtr' = r.w
              /\ res' = r.res
              /\ src' = [w |-> r.other,
                         acc |-> IF took THEN <<>> ELSE src.acc,
                         fl |-> IF took THEN <<>> ELSE src.fl,
                         mixed |-> src.mixed \/ src.w.header # wtr.header,
                         moved |-> Len(src.acc),
                         n |-> src.n + 1]
              /\ accepted' = IF took THEN accepted \o src.acc ELSE accepted
              /\ flushed' = IF took
                            THEN flushed
                                 \o [k \in 1..Len(src.fl) |->
                                        [src.fl[k] EXCEPT !.off = @ + Len(wtr.inner)]]
                                 \o r.emit
                            ELSE flushed
    /\ ncalls' = ncalls + 1
    /\ lastop' = "ingest"
    /\ lastin' = NoInput
    /\ UNCHANGED <<pc, rvars, vqi, par, ix, steps>>

NextIng ==
    \/ IngDestWrite
    \/ IngSrcWrite
    \/ Ingest
    \/ Finish

SpecIng == InitIng /\ [][NextIng]_vars

-----------------------------------------------------------------------------
(* The scope driver: a writer is written to, perhaps finished by hand, and
   then goes out of scope, where Drop runs *)

\* number of write operations before the writer goes out of scope
DropWrites == 2

\* the records handed to the writer: those of the sequential driver, and one
\* whose extended sequence holds an N after a valid primary sequence
DropInputs ==
    Inputs \cup {[flag |-> 11, s |-> <<65, 67>>, sq |-> <<46, 47>>, x |-> <<71, 78>>, xq |-> <<48, 49>>]}

\* the writer is handed a record by the write operation of its header
DropWrite ==
    /\ pc = "writing" /\ ncalls < DropWrites
    /\ \E in \in DropInputs, recs \in RecordsFieldValues :
          LET m == write_matching(wtr, in, recs)
          IN  Called("write", m.in, m.r)

\* the owner's scope ends: Drop for VBinseqWriter runs, after an explicit
\* finish or without one
Drop ==
    /\ pc \in {"writing", "finished"}
    /\ \E recs \in RecordsFieldValues :
          LET r == drop(wtr, recs)
          IN  /\ wtr' = r.w
              /\ res' = r.res
              /\ flushed' = flushed \o r.emit
    /\ lastop' = IF pc = "writing" THEN "drop" ELSE "drop_after_finish"
    /\ lastin' = NoInput
    /\ pc' = "dropped"
    /\ UNCHANGED <<ncalls, accepted, rdr, rres, block, iter, views, vqi, par, src, ix, steps>>

NextDrop ==
    \/ DropWrite
    \/ Finish
    \/ Drop

\* the step from a live writer to a dropped one; Drop is the one action of
\* NextDrop that takes it, and it can be taken whenever the writer is alive
ScopeExit == pc \in {"writing", "finished"} /\ pc' = "dropped"

\* a value is dropped when its owner's scope ends, and every scope of a
\* terminating owner ends: a live writer is dropped in the end
SpecDrop == Init /\ [][NextDrop]_vars /\ WF_pc(ScopeExit)

-----------------------------------------------------------------------------
(* The long-lived writer: finish is called at any time and any number of
   times, writes go on after it, and the quality slices handed to the write
   operations need not have the length of their sequences *)

\* number of operations on the long-lived writer
FinOps == 3

\* two records of the sequential driver, and one whose primary quality is
\* shorter and whose extended quality is longer than its sequence
FinInputs ==
    {in \in Inputs : in.flag \in {7, 258}}
    \cup {[flag |-> 13, s |-> <<65, 67>>, sq |-> <<50>>, x |-> <<71>>, xq |-> <<51, 52>>]}

\* the writer is handed a record by the write operation of its header
FinWrite ==
    /\ pc = "writing" /\ ncalls < FinOps
    /\ \E in \in FinInputs, recs \in RecordsFieldValues :
          LET m == write_matching(wtr, in, recs)
          IN  Called("write", m.in, m.r)

\* finish, on a writer that lives on
FinFinish ==
    /\ pc = "writing" /\ ncalls < FinOps
    /\ \E recs \in RecordsFieldValues :
          LET r == finish(wtr, recs)
          IN  /\ wtr' = r.w
              /\ res' = r.res
              /\ flushed' = flushed \o r.emit
    /\ ncalls' = ncalls + 1
    /\ lastop' = IF lastop \in {"finish", "finish_again"} THEN "finish_again" ELSE "finish"
    /\ lastin' = NoInput
    /\ UNCHANGED <<pc, accepted, rdr, rres, block, iter, views, vqi, par, src, ix, steps>>

NextFin ==
    \/ FinWrite
    \/ FinFinish
    \/ Drop

SpecFin == Init /\ [][NextFin]_vars

-----------------------------------------------------------------------------
(* The damaged-file driver: a finished file is damaged once, in the magic of a
   block header or by truncation inside a block body or a block header, and
   then read sequentially *)

\* one byte of the magic of the header of an emitted block is overwritten
CorruptMagic ==
    /\ pc = "finished" /\ lastop = "finish"
    /\ \E i \in 1..Len(flushed), k \in {1, 8}, v \in {0, 88} :
          /\ wtr.inner[flushed[i].off + k] # v
          /\ wtr' = [wtr EXCEPT !.inner[flushed[i].off + k] = v]
    /\ lastop' = "corrupt"
    /\ UNCHANGED <<pc, ncalls, lastin, res, accepted, flushed, rvars, vqi, par, src, ix, steps>>

\* the file ends inside the body of an emitted block: right after the block
\* header, or one byte before the end of the body
Truncate ==
    /\ pc = "finished" /\ lastop = "finish"
    /\ \E i \in 1..Len(flushed) :
          LET from == flushed[i].off + SIZE_BLOCK_HEADER
              body_len == IF wtr.header.compressed
                          THEN BlockHeaderFromBytes(
                                   Slice(wtr.inner, flushed[i].off, from)).header.size
                          ELSE wtr.header.block
          IN  \E keep \in {0, body_len - 1} :
                 wtr' = [wtr EXCEPT !.inner = Slice(@, 0, from + keep)]
    /\ lastop' = "truncate"
    /\ UNCHANGED <<pc, ncalls, lastin, res, accepted, flushed, rvars, vqi, par, src, ix, steps>>

\* the file ends inside the header of an emitted block: fewer than
\* SIZE_BLOCK_HEADER bytes follow the block before it
TruncateHeader ==
    /\ pc = "finished" /\ lastop = "finish"
    /\ \E i \in 1..Len(flushed), keep \in {1, SIZE_BLOCK_HEADER - 1} :
          wtr' = [wtr EXCEPT !.inner = Slice(@, 0, flushed[i].off + keep)]
    /\ lastop' = "truncate_header"
    /\ UNCHANGED <<pc, ncalls, lastin, res, accepted, flushed, rvars, vqi, par, src, ix, steps>>

NextBad ==
    \/ CorruptMagic
    \/ Truncate
    \/ TruncateHeader
    \/ Open
    \/ ReadBlockInto
    \/ IterNext

SpecBad == InitPar /\ [][NextBad]_vars

-----------------------------------------------------------------------------
(* The index driver: the index of a finished file is built by scan, saved to
   the sidecar and loaded back; the file is rewritten with one block less or
   the sidecar is damaged; the file is opened and load_index is called *)

\* number of BlockIndex operations and load_index calls
IdxOps == 4

\* BlockIndex::from_vbq on the file
FromVbq ==
    /\ pc = "finished" /\ ix.n < IdxOps
    /\ LET b == from_vbq(wtr.inner)
       IN  ix' = [op |-> "from_vbq",
                  res |-> IF b.ok THEN OkUnit ELSE Err(b.err),
                  index |-> b.index,
                  scan |-> b.index,
                  n |-> ix.n + 1]
    /\ UNCHANGED <<wvars, pc, rvars, vqi, par, src, steps>>

\* index.save_to_path on the index in hand
SaveToPath ==
    /\ pc = "finished" /\ ix.n < IdxOps
    /\ ix.index # <<>>
    /\ vqi' = [exists |-> TRUE, bytes |-> save_to_path(ix.index)]
    /\ ix' = [ix EXCEPT !.op = "save_to_path", !.res = OkUnit, !.n = @ + 1]
    /\ UNCHANGED <<wvars, pc, rvars, par, src, steps>>

\* BlockIndex::from_path on the sidecar
FromPath ==
    /\ pc = "finished" /\ ix.n < IdxOps
    /\ vqi.exists
    /\ LET l == from_path(vqi.bytes, wtr.inner)
       IN  ix' = [ix EXCEPT !.op = "from_path",
                            !.res = IF l.ok THEN OkUnit ELSE Result(l.err, l.a, l.b),
                            !.index = l.index,
                            !.n = @ + 1]
    /\ UNCHANGED <<wvars, pc, rvars, vqi, par, src, steps>>

\* the file is written again without its last block: its size changes
RewriteFile ==
    /\ pc = "finished" /\ lastop = "finish"
    /\ flushed # <<>>
    /\ wtr' = [wtr EXCEPT !.inner = Slice(@, 0, flushed[Len(flushed)].off)]
    /\ flushed' = SubSeq(flushed, 1, Len(flushed) - 1)
    /\ lastop' = "rewrite"
    /\ UNCHANGED <<pc, ncalls, lastin, res, accepted, rvars, vqi, par, src, ix, steps>>

\* the first byte of the sidecar is overwritten: its magic is not INDEX_MAGIC
CorruptSidecar ==
    /\ pc = "finished"
    /\ vqi.exists /\ SubSeq(vqi.bytes, 1, 8) = INDEX_MAGIC
    /\ vqi' = [vqi EXCEPT !.bytes[1] = 0]
    /\ UNCHANGED <<wvars, pc, rvars, par, src, ix, steps>>

\* MmapReader::load_index on the opened file
LoadIndex ==
    /\ pc = "reading" /\ ix.n < IdxOps
    /\ LET li == load_index(rdr, vqi)
       IN  /\ vqi' = li.sidecar
           /\ ix' = [ix EXCEPT !.op = "load_index",
                               !.res = IF li.ok THEN OkUnit ELSE Err(li.err),
                               !.index = li.index,
                               !.n = @ + 1]
    /\ UNCHANGED <<wvars, pc, rvars, par, src, steps>>

NextIdx ==
    \/ FromVbq
    \/ SaveToPath
    \/ FromPath
    \/ RewriteFile
    \/ CorruptSidecar
    \/ Open
    \/ LoadIndex

SpecIdx == InitPar /\ [][NextIdx]_vars

-----------------------------------------------------------------------------
(* Properties *)

\* what a caller observes of a record view, decoded
ViewTuple(v) ==
    [flag |-> v.flag, s |-> decode_s(v), sq |-> v.squal, x |-> decode_x(v), xq |-> v.xqual]

\* a well-formed input record: a non-empty primary sequence and, when the file
\* holds qualities, one quality byte per base
WellFormed(in) ==
    /\ Len(in.s) > 0
    /\ wtr.header.qual => (Len(in.sq) = Len(in.s) /\ Len(in.xq) = Len(in.x))

AllWellFormed == \A i \in 1..Len(accepted) : WellFormed(accepted[i])

\* C1: writing well-formed records, finishing and reading sequentially to the
\* end yields exactly the accepted records, in write order.
C1_RoundTrip ==
    (pc = "done" /\ AllWellFormed)
        => [i \in 1..Len(views) |-> ViewTuple(views[i])] = accepted

\* the views of sequential iteration, as a multiset
RECURSIVE BagOfSeq(_)
BagOfSeq(sq) == IF sq = <<>> THEN EmptyBag ELSE SetToBag({Head(sq)}) (+) BagOfSeq(Tail(sq))

\* C2: when process_parallel has returned Ok, the multiset of views handed to
\* process_record equals the multiset of views of sequential iteration.
C2_ParallelEqualsSequential ==
    (pc = "done" /\ par.st = "returned" /\ par.res = OkUnit)
        => par.seen = BagOfSeq(views)

\* a call with several workers that each handled some block has returned Ok
C2_Witness ==
    /\ pc = "done" /\ par.st = "returned" /\ par.res = OkUnit
    /\ Len(par.workers) >= 2
    /\ \A k \in 1..Len(par.workers) : Len(par.workers[k].blocks) >= 1
    /\ BagCardinality(par.seen) >= 2

\* the 32 header bytes of the i-th emitted block, as the sink holds them
EmittedHeader(i) ==
    BlockHeaderFromBytes(Slice(wtr.inner, flushed[i].off, flushed[i].off + SIZE_BLOCK_HEADER))

\* C3: the records field of the header of every emitted block equals the
\* number of records written into that block since the previous flush.
C3_RecordsField ==
    \A i \in 1..Len(flushed) :
        /\ EmittedHeader(i).ok
        /\ EmittedHeader(i).header.records = flushed[i].nrec

\* the uncompressed body of the i-th emitted block as flush must build it: the
\* staged records followed by zero bytes up to block_size
PaddedBody(i) ==
    flushed[i].staged \o Zeros(wtr.header.block - flushed[i].pos)

\* the body bytes that follow the header of the i-th emitted block in the sink
EmittedBody(i) ==
    LET from == flushed[i].off + SIZE_BLOCK_HEADER
    IN  Slice(wtr.inner, from, from + EmittedHeader(i).header.size)

\* C4: every emitted block has an uncompressed body of exactly block_size
\* bytes, the pos staged bytes followed by block_size - pos zero bytes; the sink
\* holds that body, or in compressed mode the zstd frame made from it.
C4_FlushedBody ==
    \A i \in 1..Len(flushed) :
        /\ Len(flushed[i].staged) = flushed[i].pos
        /\ Len(PaddedBody(i)) = wtr.header.block
        /\ \A k \in (flushed[i].pos + 1)..wtr.header.block : PaddedBody(i)[k] = 0
        /\ EmittedHeader(i).ok
        /\ flushed[i].off + SIZE_BLOCK_HEADER + EmittedHeader(i).header.size <= Len(wtr.inner)
        /\ IF wtr.header.compressed
           THEN /\ EmittedBody(i) = ZstdEncode(PaddedBody(i))
                /\ ZstdValid(EmittedBody(i))
                /\ ZstdDecode(EmittedBody(i)) = PaddedBody(i)
           ELSE EmittedBody(i) = PaddedBody(i)

\* a compressed file with two emitted blocks, the first one padded
C4_Witness ==
    /\ wtr.header.compressed
    /\ Len(flushed) >= 2
    /\ flushed[1].pos < wtr.header.block
    /\ flushed[1].nrec >= 1

\* body_len_i: block_size for an uncompressed file, the size field of the block
\* header for a compressed one
BodyLen(i) ==
    IF wtr.header.compressed THEN EmittedHeader(i).header.size ELSE wtr.header.block

\* C5: after finish on a non-headless writer the sink holds exactly
\* 32 + the sum over the emitted blocks of (32 + body_len_i) bytes, and an
\* uncompressed block header carries size = block_size.
C5_SinkSize ==
    (pc # "writing" /\ ~wtr.headless) =>
        /\ Len(wtr.inner) =
               32 + SumSeq([i \in 1..Len(flushed) |-> 32 + BodyLen(i)])
        /\ ~wtr.header.compressed =>
               \A i \in 1..Len(flushed) : EmittedHeader(i).header.size = wtr.header.block

\* an uncompressed non-headless file of two blocks after finish
C5_Witness ==
    /\ pc = "finished" /\ ~wtr.headless /\ ~wtr.header.compressed
    /\ Len(flushed) >= 2
    /\ Len(wtr.inner) = 32 + 2 * (32 + wtr.header.block)

\* C6: the file header is written as 32 bytes, and the header the reader
\* parses from them equals the header of the writer in every field.
C6_HeaderRoundTrip ==
    /\ Len(HeaderWriteBytes(wtr.header)) = SIZE_HEADER
    /\ pc \in {"reading", "done"} => rdr.header = wtr.header

\* the byte offset of record i (0-based) in the qualities column: the sum of
\* slen + xlen of the records before it
RECURSIVE QualityOffset(_, _)
QualityOffset(blk, i) ==
    IF i = 0 THEN 0
    ELSE QualityOffset(blk, i - 1) + blk.lens[2 * i - 1] + blk.lens[2 * i]

\* C7: the view the iterator has just yielded for a record of a block with
\* quality bytes has the slen bytes at the running byte offset as primary
\* quality and the following xlen bytes as extended quality.
C7_QualitySlices ==
    (pc = "reading" /\ iter.live /\ iter.rpos > 0 /\ block.qualities # <<>>) =>
        LET i == iter.rpos - 1
            v == views[Len(views)]
            q0 == QualityOffset(block, i)
        IN  /\ v.squal = Slice(block.qualities, q0, q0 + v.slen)
            /\ v.xqual = Slice(block.qualities, q0 + v.slen, q0 + v.slen + v.xlen)

\* the (qual, paired) row of a write operation
RowQual(op) == op \in {"write_nucleotides_quality", "write_nucleotides_quality_paired"}
RowPaired(op) == op \in {"write_nucleotides_paired", "write_nucleotides_quality_paired"}

\* the flag errors that name a flag on which the header differs from the row of op
MismatchErrors(op, header) ==
    (IF header.qual = RowQual(op) THEN {}
     ELSE IF header.qual THEN {"QualityFlagSet"} ELSE {"QualityFlagNotSet"})
    \cup
    (IF header.paired = RowPaired(op) THEN {}
     ELSE IF header.paired THEN {"PairedFlagSet"} ELSE {"PairedFlagNotSet"})

\* C8: a write operation passes its validation exactly when (qual, paired) of
\* the header is its row; on a mismatch it returns a flag error that names a
\* mismatching flag and leaves the writer and the emitted blocks unchanged.
C8_Validation ==
    [][ (ncalls' = ncalls + 1) =>
            LET matches == /\ wtr.header.qual = RowQual(lastop')
                           /\ wtr.header.paired = RowPaired(lastop')
            IN  /\ matches <=> (res'.tag \notin FlagErrors)
                /\ ~matches => /\ res'.tag \in MismatchErrors(lastop', wtr.header)
                               /\ wtr' = wtr
                               /\ flushed' = flushed
                               /\ accepted' = accepted ]_vars

\* write_nucleotides_quality was refused on a file without qualities that
\* already holds a staged record
C8_Witness ==
    /\ lastop = "write_nucleotides_quality"
    /\ res.tag = "QualityFlagNotSet"
    /\ Len(accepted) >= 1
    /\ wtr.cblock.pos > 0

\* the size of a record on disk: preamble, packed words, quality bytes
SizeOf(in) ==
    24 + 8 * DivCeil(Len(in.s), 32) + 8 * DivCeil(Len(in.x), 32) + Len(in.sq) + Len(in.xq)

\* C9: a record of exactly block_size bytes is accepted and written; a larger
\* one is refused with RecordSizeExceedsMaximumBlockSize(record_size,
\* block_size), with no flush and the block writer unchanged.
C9_RecordSizeLimit ==
    [][ (ncalls' = ncalls + 1 /\ res'.tag \notin FlagErrors /\ res' # OkFalse) =>
            LET size == SizeOf(lastin')
                bs == wtr.header.block
            IN  /\ size = bs =>
                       /\ res' = OkTrue
                       /\ accepted' = Append(accepted, lastin')
                       /\ wtr'.cblock.pos = size
                       /\ wtr'.cblock.starts = <<0>>
                       /\ Len(wtr'.cblock.ubuf) = size
                /\ size > bs =>
                       /\ res' = Result("RecordSizeExceedsMaximumBlockSize", size, bs)
                       /\ flushed' = flushed
                       /\ wtr' = wtr
                       /\ accepted' = accepted ]_vars

\* a record one byte over block_size was refused after a record of exactly
\* block_size bytes had been accepted and is still staged
C9_Witness ==
    /\ res.tag = "RecordSizeExceedsMaximumBlockSize"
    /\ res.a = res.b + 1
    /\ Len(accepted) = 1
    /\ SizeOf(accepted[1]) = wtr.header.block
    /\ wtr.cblock.pos = wtr.header.block

\* C10: no write operation accepts a record whose primary sequence is empty,
\* so no record with slen = 0 is placed in a block.
C10_RejectsEmptyPrimary ==
    \A i \in 1..Len(accepted) : Len(accepted[i].s) > 0

\* a step that is a call of ingest
IngestStep == lastop' = "ingest" /\ ncalls' = ncalls + 1

\* the staging state a writer is empty in
EmptyBlock(bw) == bw.pos = 0 /\ bw.ubuf = <<>> /\ bw.starts = <<>>

\* C11: ingest of a writer whose file header differs from the header of the
\* destination fails with IncompatibleHeaders and modifies neither writer.
C11_IncompatibleHeaders ==
    [][ (IngestStep /\ src.w.header # wtr.header) =>
            /\ res'.tag = "IncompatibleHeaders"
            /\ wtr' = wtr
            /\ src'.w = src.w ]_vars

\* C12: after an ingest that returned Ok the source is empty: its sink has
\* length 0 and its staging block has pos 0, no staged bytes and no starts.
C12_SourceEmptied ==
    [][ (IngestStep /\ res' = OkUnit) =>
            /\ Len(src'.w.inner) = 0
            /\ EmptyBlock(src'.w.cblock) ]_vars

\* an ingest with an intermediate flush has emptied a source that held
\* completed blocks in its sink and staged records
C12_Witness ==
    /\ lastop = "ingest" /\ res = OkUnit
    /\ src.moved >= 2
    /\ Len(flushed) >= 2
    /\ wtr.cblock.pos > 0
    /\ Len(src.w.inner) = 0 /\ EmptyBlock(src.w.cblock)

\* C13: an ingest between writers of one header appends the sink bytes of the
\* source to the sink of the destination, followed by one newly flushed block
\* exactly when the staged bytes of the source exceed the remaining space of
\* the destination; when they fit, the staged records of the source are
\* appended to the staging buffer of the destination.
C13_WriteThrough ==
    [][ (IngestStep /\ src.w.header = wtr.header) =>
            LET copied == wtr.inner \o src.w.inner
                fits == src.w.cblock.pos <= wtr.header.block - wtr.cblock.pos
                added == Slice(wtr'.inner, Len(copied), Len(wtr'.inner))
            IN  /\ res' = OkUnit
                /\ Len(wtr'.inner) >= Len(copied)
                /\ Slice(wtr'.inner, 0, Len(copied)) = copied
                /\ fits =>
                       /\ added = <<>>
                       /\ wtr'.cblock.ubuf = wtr.cblock.ubuf \o src.w.cblock.ubuf
                       /\ wtr'.cblock.pos = wtr.cblock.pos + src.w.cblock.pos
                       /\ wtr'.cblock.starts =
                              wtr.cblock.starts
                              \o [k \in 1..Len(src.w.cblock.starts) |->
                                     src.w.cblock.starts[k] + wtr.cblock.pos]
                /\ ~fits =>
                       /\ Len(added) > SIZE_BLOCK_HEADER
                       /\ LET bh == BlockHeaderFromBytes(Slice(added, 0, SIZE_BLOCK_HEADER))
                          IN  /\ bh.ok
                              /\ Len(added) = SIZE_BLOCK_HEADER + bh.header.size
                       /\ Len(flushed') = Len(flushed) + Len(src.fl) + 1 ]_vars

\* everything fitted: the staged record of the source went to the staging
\* buffer of a destination of the same header that already held one
C13_Witness ==
    /\ lastop = "ingest" /\ res = OkUnit /\ ~src.mixed
    /\ src.moved = 1
    /\ flushed = <<>>
    /\ Len(wtr.cblock.starts) = 2

\* the word offset of record i (0-based) in the sequences column
RECURSIVE WordOffset(_, _)
WordOffset(blk, i) ==
    IF i = 0 THEN 0
    ELSE WordOffset(blk, i - 1) + encoded_sequence_len(blk.lens[2 * i - 1])
                                + encoded_sequence_len(blk.lens[2 * i])

\* the records a record block holds, decoded
RecordsOf(blk) ==
    [k \in 1..n_records(blk) |->
        LET slen == blk.lens[2 * k - 1]
            xlen == blk.lens[2 * k]
            w0 == WordOffset(blk, k - 1)
            w1 == w0 + encoded_sequence_len(slen)
            w2 == w1 + encoded_sequence_len(xlen)
            q0 == QualityOffset(blk, k - 1)
            noq == blk.qualities = <<>>
        IN  [flag |-> blk.flags[k],
             s |-> Decode(Slice(blk.sequences, w0, w1), slen),
             sq |-> IF noq THEN <<>> ELSE Slice(blk.qualities, q0, q0 + slen),
             x |-> Decode(Slice(blk.sequences, w1, w2), xlen),
             xq |-> IF noq THEN <<>> ELSE Slice(blk.qualities, q0 + slen, q0 + slen + xlen)]]

\* the records of the i-th emitted block, read from the sink of wtr
EmittedRecords(i) ==
    LET from == flushed[i].off + SIZE_BLOCK_HEADER
        body == Slice(wtr.inner, from, from + BodyLen(i))
        ing == IF wtr.header.compressed
               THEN ingest_compressed_bytes(RecordBlockNew(wtr.header.block), body,
                                            wtr.header.qual)
               ELSE ingest_bytes(RecordBlockNew(wtr.header.block), body, wtr.header.qual)
    IN  IF ing.err = "" THEN RecordsOf(ing.blk) ELSE <<>>

RECURSIVE EmittedBag(_)
EmittedBag(i) ==
    IF i = 0 THEN EmptyBag ELSE EmittedBag(i - 1) (+) BagOfSeq(EmittedRecords(i))

\* C14: after ingests between writers of one header and finish of the
\* destination, the multiset of the records in the emitted blocks of the
\* destination is the multiset of the records the destination and the
\* ingested sources had accepted.
C14_IngestConserves ==
    (pc = "finished" /\ ~src.mixed /\ src.n >= 1) =>
        /\ \A i \in 1..Len(flushed) :
              /\ EmittedHeader(i).ok
              /\ flushed[i].off + SIZE_BLOCK_HEADER + BodyLen(i) <= Len(wtr.inner)
        /\ EmittedBag(Len(flushed)) = BagOfSeq(accepted)

\* a finished destination that held a record of its own and ingested two
\* more, in two blocks
C14_Witness ==
    /\ pc = "finished" /\ ~src.mixed
    /\ src.n = 1 /\ src.moved = 2
    /\ Len(accepted) = 3
    /\ Len(flushed) = 2

\* the bytes write_record stages for an accepted record
RecordBytes(in) ==
    U64LE(in.flag) \o U64LE(Len(in.s)) \o U64LE(Len(in.x))
    \o Flatten(Encode(in.s)) \o in.sq \o Flatten(Encode(in.x)) \o in.xq

RECURSIVE AcceptedBytes(_)
AcceptedBytes(n) ==
    IF n = 0 THEN <<>> ELSE AcceptedBytes(n - 1) \o RecordBytes(accepted[n])

\* the staged bytes of the first n emitted blocks, in file order
RECURSIVE StagedBytes(_)
StagedBytes(n) ==
    IF n = 0 THEN <<>> ELSE StagedBytes(n - 1) \o flushed[n].staged

\* every accepted record is in an emitted block of the sink: nothing is
\* staged, the emitted blocks hold the bytes of the accepted records in the
\* order of acceptance, and each block is in the sink, padded to block_size
AllInSink ==
    /\ EmptyBlock(wtr.cblock)
    /\ StagedBytes(Len(flushed)) = AcceptedBytes(Len(accepted))
    /\ SumSeq([i \in 1..Len(flushed) |-> flushed[i].nrec]) = Len(accepted)
    /\ \A i \in 1..Len(flushed) :
          /\ EmittedHeader(i).ok
          /\ flushed[i].off + SIZE_BLOCK_HEADER + EmittedHeader(i).header.size <= Len(wtr.inner)
          /\ Len(PaddedBody(i)) = wtr.header.block
          /\ IF wtr.header.compressed
             THEN ZstdValid(EmittedBody(i)) /\ ZstdDecode(EmittedBody(i)) = PaddedBody(i)
             ELSE EmittedBody(i) = PaddedBody(i)

\* C15: a writer that holds staged records and goes out of scope without an
\* explicit finish is finished by Drop: eventually the writer is dropped with
\* every record a write operation returned true for in a padded block of the
\* sink.
C15_DropFinishes ==
    (pc = "writing" /\ wtr.cblock.pos > 0) ~> (pc = "dropped" /\ AllInSink)

\* Drop, with no finish before it, emitted the padded last block of a writer
\* that had accepted two records
C15_Witness ==
    /\ pc = "dropped" /\ lastop = "drop"
    /\ Len(accepted) = 2
    /\ Len(flushed) >= 1
    /\ flushed[Len(flushed)].pos < wtr.header.block
    /\ flushed[Len(flushed)].off + SIZE_BLOCK_HEADER + BodyLen(Len(flushed)) = Len(wtr.inner)
    /\ AllInSink

\* a step that is a call of the write operation of the header of the writer
\* with a sequence the encoder cannot encode
SkipStep ==
    /\ lastop' = "write" /\ ncalls' = ncalls + 1
    /\ ~EncodeOk(lastin'.s) \/ ~EncodeOk(lastin'.x)

\* C16: a write operation whose encoder skips the record (invalid nucleotides,
\* the policy returns false) returns Ok(false), and the sink bytes, the staging
\* buffer, pos and starts are what they were before the call.
C16_SkipLeavesState ==
    [][ SkipStep =>
            /\ res' = OkFalse
            /\ wtr'.inner = wtr.inner
            /\ wtr'.cblock.ubuf = wtr.cblock.ubuf
            /\ wtr'.cblock.pos = wtr.cblock.pos
            /\ wtr'.cblock.starts = wtr.cblock.starts
            /\ wtr' = wtr
            /\ flushed' = flushed
            /\ accepted' = accepted ]_vars

\* a paired record with an N in its extended sequence was skipped by a writer
\* that holds a staged record
C16_Witness ==
    /\ lastop = "write" /\ res = OkFalse
    /\ EncodeOk(lastin.s) /\ ~EncodeOk(lastin.x)
    /\ Len(accepted) = 1
    /\ Len(wtr.cblock.starts) = 1 /\ wtr.cblock.pos > 0
    /\ flushed = <<>>

\* C17: a writer that accepted no record emits only the 32-byte file header
\* (flush with pos = 0 writes nothing); on that file the first call of
\* read_block_into returns Ok(false) without error and leaves the cursor at 32
\* and the cumulative record count at 0.
C17_EmptyFile ==
    (accepted = <<>> /\ ~wtr.headless) =>
        /\ wtr.inner = HeaderWriteBytes(wtr.header)
        /\ Len(wtr.inner) = SIZE_HEADER
        /\ flushed = <<>>
        /\ pc # "failed"
        /\ ~iter.live
        /\ pc = "reading" => (rdr.pos = SIZE_HEADER /\ rdr.total = 0)
        /\ pc = "done" =>
               /\ rres = OkFalse
               /\ rdr.pos = SIZE_HEADER
               /\ rdr.total = 0
               /\ n_records(block) = 0
               /\ views = <<>>

\* the file of a finished writer that accepted none of the records it was
\* handed has been read to its end by the first call of read_block_into
C17_Witness ==
    /\ pc = "done" /\ rres = OkFalse
    /\ accepted = <<>> /\ ~wtr.headless
    /\ ncalls >= 1
    /\ Len(rdr.mmap) = SIZE_HEADER /\ rdr.pos = SIZE_HEADER /\ rdr.total = 0

\* a step that is a call of read_block_into with 32 bytes or more left at the
\* cursor
ReadAtHeader ==
    /\ pc = "reading" /\ ~iter.live
    /\ rdr.pos + SIZE_BLOCK_HEADER <= Len(rdr.mmap)
    /\ pc' # pc \/ rdr'.pos # rdr.pos

\* the eight magic bytes of the block header at the cursor
MagicAtCursor == Slice(rdr.mmap, rdr.pos, rdr.pos + 8)

\* C18: when the block header at the cursor has a magic other than BLOCKSEQ,
\* read_block_into fails with InvalidBlockMagicNumber carrying that magic and
\* the file offset of the block header, the cursor, at any block of the file.
C18_MagicErrorOffset ==
    [][ (ReadAtHeader /\ MagicAtCursor # BLOCK_MAGIC) =>
            /\ rres'.tag = "InvalidBlockMagicNumber"
            /\ rres'.a = MagicAtCursor
            /\ rres'.b = rdr.pos ]_vars

\* body_len of the block whose valid header is at the cursor
BodyLenAtCursor ==
    IF rdr.header.compressed
    THEN BlockHeaderFromBytes(
             Slice(rdr.mmap, rdr.pos, rdr.pos + SIZE_BLOCK_HEADER)).header.size
    ELSE rdr.header.block

\* C19: when a valid block header is followed by fewer than body_len bytes,
\* read_block_into fails with UnexpectedEndOfFile carrying the cursor (which
\* has passed the block header), ingests no record into the buffer and leaves
\* the cumulative record count as it was.
C19_TruncatedBody ==
    [][ (/\ ReadAtHeader
         /\ MagicAtCursor = BLOCK_MAGIC
         /\ rdr.pos + SIZE_BLOCK_HEADER + BodyLenAtCursor > Len(rdr.mmap)) =>
            /\ rres'.tag = "UnexpectedEndOfFile"
            /\ rres'.a = rdr.pos + SIZE_BLOCK_HEADER
            /\ rdr'.pos = rdr.pos + SIZE_BLOCK_HEADER
            /\ n_records(block') = 0
            /\ rdr'.total = rdr.total
            /\ views' = views
            /\ pc' = "failed" ]_vars

\* the second block of a file was cut one byte short: the first block was
\* read, the read of the second failed at the offset of its body
C19_Witness ==
    /\ pc = "failed" /\ lastop = "truncate"
    /\ rres.tag = "UnexpectedEndOfFile"
    /\ Len(flushed) = 2
    /\ rres.a = flushed[2].off + SIZE_BLOCK_HEADER
    /\ Len(rdr.mmap) > rres.a
    /\ Len(views) >= 1
    /\ n_records(block) = 0

\* C20: the index built by scanning a file has one entry per block in file
\* order: entry 0 starts at 32, entry i+1 starts at start_offset_i + 32 + len_i,
\* len_i and block_records_i are the size and records fields of the header of
\* block i, and cumulative_records_i is the sum of block_records_j over j < i.
C20_IndexFromScan ==
    vqi.exists =>
        /\ Len(par.index) = Len(flushed)
        /\ \A i \in 1..Len(par.index) :
              /\ par.index[i].start_offset = flushed[i].off
              /\ i = 1 => par.index[i].start_offset = SIZE_HEADER
              /\ i > 1 => par.index[i].start_offset =
                              par.index[i - 1].start_offset + SIZE_BLOCK_HEADER
                                                            + par.index[i - 1].len
              /\ i <= Len(flushed) =>
                     /\ EmittedHeader(i).ok
                     /\ par.index[i].len = EmittedHeader(i).header.size
                     /\ par.index[i].block_records = EmittedHeader(i).header.records
              /\ par.index[i].cumulative_records =
                     SumSeq([j \in 1..(i - 1) |-> par.index[j].block_records])

\* the scan of a file of two blocks whose headers carry one record each
C20_Witness ==
    /\ vqi.exists
    /\ Len(par.index) = 2
    /\ par.index[1].block_records = 1
    /\ par.index[2].cumulative_records = 1
    /\ par.index[2].start_offset = SIZE_HEADER + SIZE_BLOCK_HEADER + par.index[1].len

\* the four fields of an index entry
EntryFields(e) == <<e.start_offset, e.len, e.block_records, e.cumulative_records>>

\* a step that is a call of BlockIndex::from_path
FromPathStep == ix'.op = "from_path" /\ ix'.n = ix.n + 1

\* C21: an index built by scan, saved to the sidecar and loaded back while the
\* file is unchanged has the same number of entries, each equal field by field
\* to the entry of the scan, in the same order.
C21_IndexRoundTrip ==
    [][ (/\ FromPathStep
         /\ ix.scan # <<>>
         /\ vqi.bytes = save_to_path(ix.scan)
         /\ ix.scan.header.bytes = Len(wtr.inner)) =>
            /\ ix'.res = OkUnit
            /\ ix'.index # <<>>
            /\ Len(ix'.index.ranges) = Len(ix.scan.ranges)
            /\ \A k \in 1..Len(ix.scan.ranges) :
                  k <= Len(ix'.index.ranges)
                  /\ EntryFields(ix'.index.ranges[k]) = EntryFields(ix.scan.ranges[k]) ]_vars

\* the saved index of a file of two blocks with one record in each header was
\* loaded back
C21_Witness ==
    /\ ix.op = "from_path" /\ ix.res = OkUnit
    /\ ix.scan # <<>> /\ vqi.bytes = save_to_path(ix.scan)
    /\ Len(ix.index.ranges) = 2
    /\ ix.index.ranges[2].cumulative_records = 1
    /\ ix.index.ranges[2].start_offset > SIZE_HEADER + SIZE_BLOCK_HEADER

\* the file size the header of the sidecar records
RecordedSize == ReadU64LE(SubSeq(vqi.bytes, 9, 16))

\* the sidecar has a readable header with the index magic
SidecarHeaderOk ==
    /\ vqi.exists
    /\ Len(vqi.bytes) >= INDEX_HEADER_SIZE
    /\ SubSeq(vqi.bytes, 1, 8) = INDEX_MAGIC

\* C22: from_path on a sidecar whose header records a file size other than
\* the size of the VBQ file fails with ByteSizeMismatch(actual size, recorded
\* size) and returns no entries.
C22_ByteSizeMismatch ==
    [][ (/\ FromPathStep
         /\ SidecarHeaderOk
         /\ RecordedSize # Len(wtr.inner)) =>
            /\ ix'.res.tag = "IndexError::ByteSizeMismatch"
            /\ ix'.res.a = Len(wtr.inner)
            /\ ix'.res.b = RecordedSize
            /\ ix'.index = <<>> ]_vars

\* the sidecar of a file of two blocks was loaded after the file was written
\* again with one block
C22_Witness ==
    /\ ix.op = "from_path" /\ lastop = "rewrite"
    /\ ix.res.tag = "IndexError::ByteSizeMismatch"
    /\ Len(flushed) = 1
    /\ ix.res.a = Len(wtr.inner)
    /\ SidecarHeaderOk /\ ix.res.b = RecordedSize
    /\ ix.res.b > ix.res.a

\* a step that is a call of MmapReader::load_index
LoadIndexStep == ix'.op = "load_index" /\ ix'.n = ix.n + 1

\* C23: when loading the sidecar fails with an index error other than the
\* byte-size mismatch (here: the magic of the sidecar is not INDEX_MAGIC),
\* load_index returns that error, and neither rebuilds the index nor
\* overwrites the sidecar.
C23_OnlyMismatchRebuilds ==
    [][ (/\ LoadIndexStep
         /\ vqi.exists
         /\ Len(vqi.bytes) >= INDEX_HEADER_SIZE
         /\ SubSeq(vqi.bytes, 1, 8) # INDEX_MAGIC) =>
            /\ ix'.res.tag = "IndexError::InvalidMagicNumber"
            /\ ix'.index = <<>>
            /\ vqi' = vqi ]_vars

\* the sidecar as load_index leaves it after a build from scan
ScannedSidecar == [exists |-> TRUE, bytes |-> save_to_path(from_vbq(rdr.mmap).index)]

\* C24: load_index with no sidecar builds the index from scan, saves it and
\* returns it; with a sidecar that records the size of the file it returns the
\* loaded index and leaves the sidecar alone; with a sidecar that records
\* another size it rebuilds from scan, saves and returns.  After a successful
\* load_index the sidecar exists and records the size of the file.
C24_LoadIndexProtocol ==
    [][ LoadIndexStep =>
            /\ ~vqi.exists =>
                   /\ ix'.res = OkUnit
                   /\ ix'.index = from_vbq(rdr.mmap).index
                   /\ vqi' = ScannedSidecar
            /\ (SidecarHeaderOk /\ RecordedSize = Len(rdr.mmap)) =>
                   /\ ix'.res = OkUnit
                   /\ save_to_path(ix'.index) = vqi.bytes
                   /\ vqi' = vqi
            /\ (SidecarHeaderOk /\ RecordedSize # Len(rdr.mmap)) =>
                   /\ ix'.res = OkUnit
                   /\ ix'.index = from_vbq(rdr.mmap).index
                   /\ vqi' = ScannedSidecar
            /\ ix'.res = OkUnit =>
                   /\ vqi'.exists
                   /\ Len(vqi'.bytes) >= INDEX_HEADER_SIZE
                   /\ ReadU64LE(SubSeq(vqi'.bytes, 9, 16)) = Len(rdr.mmap) ]_vars

\* load_index has rebuilt and saved the index of a file of one block whose
\* sidecar recorded the size the file had with two blocks
C24_Witness ==
    /\ ix.op = "load_index" /\ ix.res = OkUnit
    /\ lastop = "rewrite"
    /\ ix.scan # <<>> /\ Len(ix.scan.ranges) = 2
    /\ Len(ix.index.ranges) = 1
    /\ SidecarHeaderOk /\ RecordedSize = Len(rdr.mmap)
    /\ RecordedSize < ix.scan.header.bytes

\* the blocks of the index, by number, that a spawned worker was handed
AssignedBlocks(w) == {w.blocks[j].cumulative_records : j \in 1..Len(w.blocks)}

\* ceil(n / t): the least b with b * t >= n
CeilDiv(n, t) == CHOOSE b \in 0..n : b * t >= n /\ \A c \in 0..(b - 1) : c * t < n

\* C25: once the spawn loop has run, the worker of thread id `id` holds the
\* blocks id*bpt .. min((id+1)*bpt, n_blocks) - 1 in ascending order, with
\* bpt = ceil(n_blocks / num_threads); the assignments of two workers are
\* disjoint, and every block 0 .. n_blocks-1 is assigned to a worker.
C25_Partition ==
    (pc = "indexed" /\ par.st = "joining") =>
        LET n_blocks == Len(par.index)
            bpt == CeilDiv(n_blocks, par.num_threads)
            W == 1..Len(par.workers)
        IN  /\ \A k \in W :
                  LET w == par.workers[k]
                      lo == w.tid * bpt
                      hi == IF (w.tid + 1) * bpt < n_blocks THEN (w.tid + 1) * bpt ELSE n_blocks
                  IN  /\ Len(w.blocks) = hi - lo
                      /\ \A j \in 1..Len(w.blocks) : w.blocks[j] = par.index[lo + j]
            /\ \A k, l \in W :
                  k # l => /\ par.workers[k].tid # par.workers[l].tid
                           /\ AssignedBlocks(par.workers[k]) \cap AssignedBlocks(par.workers[l]) = {}
            /\ UNION {AssignedBlocks(par.workers[k]) : k \in W} = 0..(n_blocks - 1)
            /\ \A id \in 0..(par.num_threads - 1) :
                  (id * bpt < n_blocks) => \E k \in W : par.workers[k].tid = id

\* five blocks over four threads: thread ids 0..2 hold 2, 2 and 1 blocks and
\* thread id 3 is skipped
C25_Witness ==
    /\ pc = "indexed" /\ par.st = "joining"
    /\ Len(par.index) = 5 /\ par.num_threads = 4
    /\ par.tids = <<0, 1, 2>>
    /\ Len(par.workers[3].blocks) = 1
    /\ par.workers[3].blocks[1].cumulative_records = 4

\* C26: when process_parallel has returned, every worker it spawned has
\* terminated, also when a worker returned an error.
C26_ReturnsAfterAllWorkers ==
    par.st = "returned" =>
        \A k \in 1..Len(par.workers) : par.workers[k].st \in {"done", "failed"}

\* the number of the block of the file that an index entry describes
BlockNo(range) == CHOOSE i \in 1..Len(flushed) : flushed[i].off = range.start_offset

\* the number of records in the blocks of the file before block i
RECURSIVE RecordsBefore(_)
RecordsBefore(i) == IF i <= 1 THEN 0 ELSE RecordsBefore(i - 1) + flushed[i - 1].nrec

\* the callbacks a worker owes the j-th of its blocks: process_record for the
\* records of the block in the order of the file, then on_batch_complete
BlockCallbacks(w, j) ==
    LET i == BlockNo(w.blocks[j])
    IN  [k \in 1..flushed[i].nrec |->
            Callback("process_record", j - 1, <<views[RecordsBefore(i) + k]>>)]
        \o <<Callback("on_batch_complete", j - 1, <<>>)>>

\* the callbacks a worker owes its first j blocks
RECURSIVE WorkerCallbacks(_, _)
WorkerCallbacks(w, j) ==
    IF j = 0 THEN <<>> ELSE WorkerCallbacks(w, j - 1) \o BlockCallbacks(w, j)

IsPrefix(a, b) == Len(a) <= Len(b) /\ SubSeq(b, 1, Len(a)) = a

\* sequential reading has returned every record the writer staged
ReadBackComplete == pc = "done" /\ Len(views) = RecordsBefore(Len(flushed) + 1)

\* C27: over a file that reads back completely, the blocks of a worker ascend
\* in the file; the callbacks a worker has made are a prefix of: for each of
\* its blocks in turn, process_record for the records of the block in file
\* order, then one on_batch_complete; a worker that returned Ok has made all
\* of them.
C27_WorkerOrder ==
    (ReadBackComplete /\ par.st # "idle") =>
        \A k \in 1..Len(par.workers) :
            LET w == par.workers[k]
            IN  /\ \A j \in 1..(Len(w.blocks) - 1) :
                       w.blocks[j].start_offset < w.blocks[j + 1].start_offset
                /\ IsPrefix(w.log, WorkerCallbacks(w, Len(w.blocks)))
                /\ w.st = "done" => w.log = WorkerCallbacks(w, Len(w.blocks))

\* a worker has returned Ok after two blocks: process_record and
\* on_batch_complete for the first block, then the same for the second
C27_Witness ==
    /\ ReadBackComplete /\ par.st # "idle"
    /\ \E k \in 1..Len(par.workers) :
          LET w == par.workers[k]
          IN  /\ w.st = "done" /\ Len(w.blocks) = 2 /\ Len(w.log) = 4
              /\ w.log[1].ev = "process_record" /\ w.log[2].ev = "on_batch_complete"
              /\ w.log[3].ev = "process_record" /\ w.log[3].bi = 1
              /\ w.log[4].ev = "on_batch_complete"

\* C28: over a file that reads back completely, the global index of the k-th
\* record view of sequential reading is k - 1, its position in the file
\* counted from 0.
C28_GlobalIndex ==
    ReadBackComplete => \A k \in 1..Len(views) : views[k].index = k - 1

\* the block writer keeps its cursor within the block and at the end of its
\* staging buffer
CursorOk(bw) == 0 <= bw.pos /\ bw.pos <= bw.block_size /\ Len(bw.ubuf) = bw.pos

\* C29: for two writers of one header, after every operation (write, finish,
\* ingest) the block writer of the receiving and of the drained writer has
\* 0 <= pos <= block_size and a staging buffer of length pos.
C29_CursorInvariant ==
    (src.w # <<>> /\ src.w.header = wtr.header) =>
        CursorOk(wtr.cblock) /\ CursorOk(src.w.cblock)

\* an ingest between writers of one header has flushed a block and left
\* staged bytes in the receiving writer and none in the drained one
C29_Witness ==
    /\ src.w # <<>> /\ src.w.header = wtr.header
    /\ lastop = "ingest" /\ res = OkUnit
    /\ Len(flushed) >= 1
    /\ wtr.cblock.pos > 0 /\ Len(wtr.cblock.ubuf) = wtr.cblock.pos
    /\ src.w.cblock.pos = 0 /\ src.w.cblock.ubuf = <<>>

\* the bytes write_record stages for a sequence of records
RECURSIVE RecordsBytes(_)
RecordsBytes(recs) ==
    IF recs = <<>> THEN <<>> ELSE RecordBytes(Head(recs)) \o RecordsBytes(Tail(recs))

\* the records a writer holds staged: the last of those it accepted
StagedRecords(w, acc) == SubSeq(acc, Len(acc) - Len(w.cblock.starts) + 1, Len(acc))

\* the largest number of leading records of recs that fit whole into room bytes
WholeFit(recs, room) ==
    CHOOSE k \in 0..Len(recs) :
        /\ Len(RecordsBytes(SubSeq(recs, 1, k))) <= room
        /\ k < Len(recs) => Len(RecordsBytes(SubSeq(recs, 1, k + 1))) > room

\* the staged bytes of the source do not fit into the destination
PartialIngest ==
    /\ src.w.header = wtr.header
    /\ wtr.cblock.pos <= wtr.cblock.block_size
    /\ src.w.cblock.pos > wtr.cblock.block_size - wtr.cblock.pos

\* C30: when the staged bytes of other do not fit, ingest flushes a block made
\* of the staged bytes of self followed by the largest number of leading whole
\* records of other that fit into block_size - self.pos; the other records of
\* other are then the staged bytes of self, whole, and other is empty.
C30_PartialIngestWholeRecords ==
    [][ (IngestStep /\ PartialIngest) =>
            LET recs == StagedRecords(src.w, src.acc)
                k == WholeFit(recs, wtr.cblock.block_size - wtr.cblock.pos)
                n == Len(flushed')
            IN  /\ res' = OkUnit
                /\ n = Len(flushed) + Len(src.fl) + 1
                /\ flushed'[n].staged = wtr.cblock.ubuf \o RecordsBytes(SubSeq(recs, 1, k))
                /\ flushed'[n].nrec = Len(wtr.cblock.starts) + k
                /\ wtr'.cblock.ubuf = RecordsBytes(SubSeq(recs, k + 1, Len(recs)))
                /\ Len(wtr'.cblock.starts) = Len(recs) - k
                /\ src'.w.cblock.ubuf = <<>> /\ src'.w.cblock.starts = <<>> ]_vars

\* an ingest has flushed a block of two records, one of them from the source,
\* and staged the other record of the source in the fresh block
C30_Witness ==
    /\ lastop = "ingest" /\ res = OkUnit
    /\ src.w # <<>> /\ src.w.header = wtr.header
    /\ src.moved = 2
    /\ Len(flushed) = 1 /\ flushed[1].nrec = 2
    /\ Len(wtr.cblock.starts) = 1 /\ wtr.cblock.pos > 0

\* a step in which a write operation accepted a record
AcceptStep == ncalls' = ncalls + 1 /\ res' = OkTrue /\ accepted' = Append(accepted, lastin')

\* the emitted blocks and the staged bytes are the bytes of the accepted
\* records in order, and every emitted block ends where a record ends
WholeRecordsPerBlock ==
    /\ StagedBytes(Len(flushed)) \o wtr.cblock.ubuf = AcceptedBytes(Len(accepted))
    /\ \A i \in 1..Len(flushed) :
          \E k \in 0..Len(accepted) : Len(StagedBytes(i)) = Len(AcceptedBytes(k))

\* C31: a write operation that accepts a record flushes the staged block first
\* exactly when pos + record_size > block_size; a record that fills the
\* remaining space exactly is staged in the current block; after it, every
\* record lies whole inside one block.
C31_FlushIffOverflow ==
    [][ AcceptStep =>
            LET size == SizeOf(lastin')
                bs == wtr.cblock.block_size
                pos == wtr.cblock.pos
            IN  /\ (pos + size > bs) <=> (Len(flushed') = Len(flushed) + 1)
                /\ Len(flushed') \in {Len(flushed), Len(flushed) + 1}
                /\ (pos + size > bs) =>
                       /\ flushed'[Len(flushed')].staged = wtr.cblock.ubuf
                       /\ wtr'.cblock.pos = size
                /\ (pos + size <= bs) => wtr'.cblock.pos = pos + size
                /\ WholeRecordsPerBlock' ]_vars

\* a second record has filled the block to its last byte without a flush
C31_Witness ==
    /\ pc = "writing" /\ res = OkTrue
    /\ Len(accepted) = 2 /\ flushed = <<>>
    /\ SizeOf(accepted[1]) + SizeOf(accepted[2]) = wtr.cblock.block_size
    /\ wtr.cblock.pos = wtr.cblock.block_size
    /\ Len(wtr.cblock.starts) = 2

\* the length fields of the preamble of the record staged last
LastPreamble(bw) ==
    LET at == bw.starts[Len(bw.starts)]
    IN  [slen |-> ReadU64LE(Slice(bw.ubuf, at + 8, at + 16)),
         xlen |-> ReadU64LE(Slice(bw.ubuf, at + 16, at + 24))]

\* C32: a write operation that accepts a record advances pos by
\* 24 + 8*ceil(slen/32) + 8*ceil(xlen/32) + (qual ? slen + xlen : 0), slen and
\* xlen being the length fields of the preamble it staged, also when the
\* quality slices do not have the length of the sequences.
C32_RecordSizeFormula ==
    [][ AcceptStep =>
            LET bw == wtr'.cblock
                at == bw.starts[Len(bw.starts)]
                pre == LastPreamble(bw)
            IN  bw.pos - at =
                    24 + 8 * DivCeil(pre.slen, 32) + 8 * DivCeil(pre.xlen, 32)
                       + (IF wtr.header.qual THEN pre.slen + pre.xlen ELSE 0) ]_vars

\* a step from a writer whose last operation was finish
AfterFinish == lastop \in {"finish", "finish_again"}

\* C37: a finish that follows a finish, and a drop that follows a finish, emit
\* nothing and leave the sink as it was; a record accepted after a finish is
\* the first of a fresh block.
C37_FinishIdempotent ==
    [][ AfterFinish =>
            /\ lastop' \in {"finish_again", "drop"} =>
                   /\ wtr'.inner = wtr.inner
                   /\ flushed' = flushed
                   /\ EmptyBlock(wtr'.cblock)
                   /\ res' = OkUnit
            /\ AcceptStep =>
                   /\ wtr'.inner = wtr.inner
                   /\ flushed' = flushed
                   /\ wtr'.cblock.starts = <<0>>
                   /\ wtr'.cblock.ubuf = RecordBytes(lastin') ]_vars

\* finish has been called twice after a record: one block is in the sink
C37_Witness ==
    /\ lastop = "finish_again" /\ ncalls = 3
    /\ Len(accepted) = 1 /\ Len(flushed) = 1
    /\ EmptyBlock(wtr.cblock)
    /\ ~wtr.headless /\ ~wtr.header.compressed
    /\ Len(wtr.inner) = SIZE_HEADER + SIZE_BLOCK_HEADER + wtr.header.block

\* C33: every worker that process_parallel spawned was handed at least one
\* block: a thread id whose block range is empty gets no worker.
C33_NoWorkerWithoutBlocks ==
    \A k \in 1..Len(par.workers) : par.workers[k].blocks # <<>>

\* every worker has returned; over a file that reads back completely, one
\* that returned Ok has made all its callbacks and one that returned an
\* error has made some of them, in order, and not all
WorkersSettled ==
    \A k \in 1..Len(par.workers) :
        LET w == par.workers[k]
        IN  /\ w.st \in {"done", "failed"}
            /\ ReadBackComplete =>
                   LET all == WorkerCallbacks(w, Len(w.blocks))
                   IN  /\ w.st = "done" => w.log = all
                       /\ w.st = "failed" => IsPrefix(w.log, all) /\ w.log # all

RecordsAtCursor ==
    BlockHeaderFromBytes(Slice(rdr.mmap, rdr.pos, rdr.pos + SIZE_BLOCK_HEADER)).header.records

\* a step in which read_block_into read a block
ReadBlockStep ==
    /\ pc = "reading" /\ ~iter.live
    /\ rdr.pos + SIZE_BLOCK_HEADER <= Len(rdr.mmap)
    /\ rres'.tag = "OkTrue" /\ rdr'.pos > rdr.pos

\* C35: read_block_into advances its cumulative record count by the records
\* field of the block header when the field is not 0, and by the number of
\* records it decoded from the block when the field is 0.
C35_ZeroRecordsFallback ==
    [][ ReadBlockStep =>
            rdr'.total = rdr.total + (IF RecordsAtCursor # 0 THEN RecordsAtCursor
                                      ELSE n_records(block')) ]_vars

\* the record block after ingest_bytes of a body, and after
\* ingest_compressed_bytes of the zstd frame of the same body
IngestedRaw(body) ==
    ingest_bytes(RecordBlockNew(wtr.header.block), body, wtr.header.qual)
IngestedCompressed(body) ==
    ingest_compressed_bytes(RecordBlockNew(wtr.header.block), ZstdEncode(body), wtr.header.qual)

\* C36: for the padded body of every emitted block, ingest_compressed_bytes of
\* its zstd frame and ingest_bytes of the body itself end without error and
\* leave the same flags, lens, sequence words and quality bytes in the record
\* block.
C36_IngestPathsAgree ==
    \A i \in 1..Len(flushed) :
        Len(flushed[i].staged) <= wtr.header.block =>
            LET raw == IngestedRaw(PaddedBody(i))
                zst == IngestedCompressed(PaddedBody(i))
            IN  /\ raw.err = "" /\ zst.err = ""
                /\ zst.blk.flags = raw.blk.flags
                /\ zst.blk.lens = raw.blk.lens
                /\ zst.blk.sequences = raw.blk.sequences
                /\ zst.blk.qualities = raw.blk.qualities

\* a block of two paired records with quality was emitted; both paths find the
\* two records in it
C36_Witness ==
    /\ wtr.header.qual /\ wtr.header.paired
    /\ Len(flushed) = 1 /\ flushed[1].nrec = 2
    /\ Len(flushed[1].staged) < wtr.header.block
    /\ Len(IngestedRaw(PaddedBody(1)).blk.flags) = 2
    /\ Len(IngestedCompressed(PaddedBody(1)).blk.flags) = 2
    /\ IngestedCompressed(PaddedBody(1)).blk.qualities # <<>>

\* the records of acc at the positions S, in the order of acc
Selected(acc, S) ==
    [k \in 1..Cardinality(S) |->
        acc[CHOOSE i \in S : Cardinality({j \in S : j < i}) = k - 1]]

\* the starts of block writer bw are the offsets at which whole records begin
\* in its staged bytes, one for each record: the staged bytes are the bytes of
\* Len(starts) of the records of acc, in their order, and the starts are
\* strictly increasing, 0 first, every one below pos
StartsOk(bw, acc) ==
    LET n == Len(bw.starts)
    IN  /\ \E S \in SUBSET (1..Len(acc)) :
              /\ Cardinality(S) = n
              /\ LET recs == Selected(acc, S)
                 IN  /\ bw.ubuf = RecordsBytes(recs)
                     /\ \A k \in 1..n :
                           bw.starts[k] = Len(RecordsBytes(SubSeq(recs, 1, k - 1)))
        /\ \A k \in 1..(n - 1) : bw.starts[k] < bw.starts[k + 1]
        /\ n > 0 => bw.starts[1] = 0
        /\ \A k \in 1..n : bw.starts[k] < bw.pos

\* the two block writers after the ingest_subset of a partial ingest, before
\* the flush and the ingest_all that follow it
DrainedOk ==
    LET r == ingest_subset(wtr.cblock, src.w.cblock)
        recs == StagedRecords(src.w, src.acc)
        k == Len(r.self.starts) - Len(wtr.cblock.starts)
    IN  /\ r.ok
        /\ StartsOk(r.self, accepted \o SubSeq(recs, 1, k))
        /\ StartsOk(r.other, src.acc)
        /\ Len(r.other.starts) = Len(src.w.cblock.starts) - k

\* C38: after every operation of the two writers the starts of each block
\* writer are strictly increasing, begin with 0 when non-empty, lie below pos,
\* and are as many as the whole records staged; the same holds of both block
\* writers between the ingest_subset and the ingest_all of a partial ingest.
C38_StartsInvariant ==
    /\ StartsOk(wtr.cblock, accepted)
    /\ src.w # <<>> => StartsOk(src.w.cblock, src.acc)
    /\ (src.w # <<>> /\ PartialIngest) => DrainedOk

\* a partial ingest has moved one of the two records of the source into the
\* block of the destination it flushed, and has staged the other at offset 0
C38_Witness ==
    /\ lastop = "ingest" /\ res = OkUnit
    /\ src.w # <<>> /\ src.w.cblock.starts = <<>>
    /\ Len(accepted) = 3
    /\ Len(flushed) = 1 /\ flushed[1].nrec = 2
    /\ wtr.cblock.starts = <<0>>
    /\ wtr.cblock.ubuf = RecordBytes(accepted[3])

\* the blocks the sequential loop reads from reader r on: for every
\* read_block_into that returns true, the offset at which it parsed the block
\* header and the length of the body it consumed
RECURSIVE SequentialBlocks(_, _, _)
SequentialBlocks(r, blk, acc) ==
    LET x == read_block_into(r, blk)
    IN  IF x.res.tag = "OkTrue"
        THEN SequentialBlocks(x.rdr, x.blk,
                 Append(acc, [start_offset |-> r.pos,
                              len |-> x.rdr.pos - r.pos - SIZE_BLOCK_HEADER]))
        ELSE [ok |-> x.res.tag = "OkFalse", blocks |-> acc, pos |-> x.rdr.pos]

\* the sequential reader has read the file to the end without error
ReadToEnd == pc = "done" /\ rres = OkFalse

\* the scan of the file in the reader and the sequential read of it agree
ScanAgrees ==
    LET o == MmapReaderNew(rdr.mmap)
        sq == SequentialBlocks(o.rdr, new_block(o.rdr), <<>>)
        sc == from_vbq(rdr.mmap)
    IN  /\ sq.ok /\ sq.pos = rdr.pos
        /\ sc.ok
        /\ Len(sc.index.ranges) = Len(sq.blocks)
        /\ \A i \in 1..Len(sq.blocks) :
              /\ sc.index.ranges[i].start_offset = sq.blocks[i].start_offset
              /\ sc.index.ranges[i].len = sq.blocks[i].len

\* C39: for every file the sequential reader reads to the end without error,
\* BlockIndex::from_vbq completes without failure, has as many entries as
\* read_block_into returned true, and the start_offset and len of its i-th
\* entry are the offset of the i-th block header the reader parsed and the
\* length of the body it consumed.
C39_ScanAgreesWithReader == ReadToEnd => ScanAgrees

====
